---- MODULE Spec2Model ----
(***************************************************************************)
(* GitSidecar (src/main.py): the layered configuration store, the          *)
(* workspace manager, the checkout flow and the repository identifier, as  *)
(* a state machine.                                                        *)
(*                                                                         *)
(* A Python str is a sequence of one-character strings.  An Optional[str]  *)
(* that is None is the one-element sequence None, which is no str of the   *)
(* program because "None" is not a single character.                       *)
(***************************************************************************)
EXTENDS Integers, Sequences, FiniteSets, TLC

VARIABLES
    config,     \* ConfigManager.config: the parser state of the live instance
    repo_id,    \* ConfigManager._repo_id of the live instance
    file,       \* the content of the configuration file
    fs,         \* the filesystem: path -> entry
    enum_desc,  \* the order in which the filesystem enumerates a directory
    is_windows, \* platform.system() == 'Windows'
    git,        \* the repository RepoIdentifier asks: git_dir, remotes, git executable
    other,      \* the parser state of a second ConfigManager on the same file
    pc,         \* where the live instance is in _save_config: "idle" or "opened"
    overrides,  \* history: the override last set per (repo, section, option)
    seen,       \* history: file contents at the latest saves and loads
    last        \* history: the last operation and what it returned

vars == <<config, repo_id, file, fs, enum_desc, is_windows, git, other, pc, overrides, seen, last>>

None == <<"None">>

\* No RepoIdentifier in play: no git directory, no remotes, git runs.
NoGit == [git_dir |-> None, remotes |-> <<>>, exe |-> "ok"]

\* Python truthiness of an Optional[str]: None and '' are false.
Truthy(s) == s # None /\ s # <<>>

-----------------------------------------------------------------------------
(* String constants of the source.                                         *)

k_paths == <<"p", "a", "t", "h", "s">>
k_branches == <<"b", "r", "a", "n", "c", "h", "e", "s">>
k_ticket_pattern == <<"t", "i", "c", "k", "e", "t", "_", "p", "a", "t", "t", "e", "r", "n">>
k_links == <<"l", "i", "n", "k", "s">>
k_workspace_base == <<"w", "o", "r", "k", "s", "p", "a", "c", "e", "_", "b", "a", "s", "e">>
k_tools_library_path == <<"t", "o", "o", "l", "s", "_", "l", "i", "b", "r", "a", "r", "y", "_", "p", "a", "t", "h">>
k_standard_branches == <<"s", "t", "a", "n", "d", "a", "r", "d", "_", "b", "r", "a", "n", "c", "h", "e", "s">>
k_prefix_pattern == <<"p", "r", "e", "f", "i", "x", "_", "p", "a", "t", "t", "e", "r", "n">>
k_separator == <<"s", "e", "p", "a", "r", "a", "t", "o", "r">>
k_number_pattern == <<"n", "u", "m", "b", "e", "r", "_", "p", "a", "t", "t", "e", "r", "n">>
k_description_pattern == <<"d", "e", "s", "c", "r", "i", "p", "t", "i", "o", "n", "_", "p", "a", "t", "t", "e", "r", "n">>
k_current_ticket_link_locations == <<"c", "u", "r", "r", "e", "n", "t", "_", "t", "i", "c", "k", "e", "t", "_", "l", "i", "n", "k", "_", "l", "o", "c", "a", "t", "i", "o", "n", "s">>
k_current_ticket_link_filename == <<"c", "u", "r", "r", "e", "n", "t", "_", "t", "i", "c", "k", "e", "t", "_", "l", "i", "n", "k", "_", "f", "i", "l", "e", "n", "a", "m", "e">>
k_tools_to_link == <<"t", "o", "o", "l", "s", "_", "t", "o", "_", "l", "i", "n", "k">>
v_tickets == <<"~", "/", "t", "i", "c", "k", "e", "t", "s">>
v_tools == <<"~", "/", "t", "o", "o", "l", "s">>
v_standard_branches == <<"m", "a", "i", "n", ",", " ", "m", "a", "s", "t", "e", "r", ",", " ", "d", "e", "v", "e", "l", "o", "p", ",", " ", "s", "t", "a", "g", "e", ",", " ", "p", "r", "o", "d", "u", "c", "t", "i", "o", "n">>
v_prefix_pattern == <<"[", "A", "-", "Z", "a", "-", "z", "]", "{", "1", ",", "1", "0", "}">>
v_separator == <<"[", "-", "_", "]">>
v_number_pattern == <<"\\", "d", "+">>
v_description_pattern == <<".", "*">>
v_Downloads == <<"~", "/", "D", "o", "w", "n", "l", "o", "a", "d", "s">>
v_CurrentTicket == <<"C", "u", "r", "r", "e", "n", "t", "T", "i", "c", "k", "e", "t">>
v_tools_to_link == <<"n", "o", "t", "e", "b", "o", "o", "k", "s", ",", " ", "s", "c", "r", "i", "p", "t", "s", ",", " ", "u", "t", "i", "l", "s">>
p_default == <<"d", "e", "f", "a", "u", "l", "t", ".">>
p_repo == <<"r", "e", "p", "o", ":">>
p_local == <<"l", "o", "c", "a", "l", "/">>

-----------------------------------------------------------------------------
(* str helpers.                                                            *)

UpperLetters == <<"A", "B", "C", "D", "E", "F", "G", "H", "I", "J", "K", "L", "M", "N", "O", "P", "Q", "R", "S", "T", "U", "V", "W", "X", "Y", "Z">>
LowerLetters == <<"a", "b", "c", "d", "e", "f", "g", "h", "i", "j", "k", "l", "m", "n", "o", "p", "q", "r", "s", "t", "u", "v", "w", "x", "y", "z">>

UpperSet == {UpperLetters[i] : i \in 1..26}
LowerSet == {LowerLetters[i] : i \in 1..26}
LowerOf == [c \in UpperSet |-> LowerLetters[CHOOSE i \in 1..26 : UpperLetters[i] = c]]
UpperOf == [c \in LowerSet |-> UpperLetters[CHOOSE i \in 1..26 : LowerLetters[i] = c]]

\* str.lower() on one character.
LowerChar(c) == IF c \in UpperSet THEN LowerOf[c] ELSE c

\* str.lower()
Lower(s) == [i \in 1..Len(s) |-> LowerChar(s[i])]

\* str.startswith(p)
StartsWith(s, p) == Len(s) >= Len(p) /\ SubSeq(s, 1, Len(p)) = p

\* s[n:]
DropFirst(s, n) == SubSeq(s, n + 1, Len(s))

RECURSIVE LStripChars(_, _)
LStripChars(s, chars) ==
    IF s # <<>> /\ s[1] \in chars THEN LStripChars(Tail(s), chars) ELSE s

RECURSIVE RStripChars(_, _)
RStripChars(s, chars) ==
    IF s # <<>> /\ s[Len(s)] \in chars
    THEN RStripChars(SubSeq(s, 1, Len(s) - 1), chars)
    ELSE s

\* str.strip(chars)
StripChars(s, chars) == RStripChars(LStripChars(s, chars), chars)

\* str.strip(): the whitespace of the modelled alphabet is the blank.
Strip(s) == StripChars(s, {" "})

\* Index of the first character of s that is in chars, or 0.
FindFirst(s, chars, i) ==
    LET hits == {j \in i..Len(s) : s[j] \in chars}
    IN  IF hits = {} THEN 0 ELSE CHOOSE j \in hits : \A k \in hits : j <= k

\* str.replace(c, r) for every character c of chars.
ReplaceChars(s, chars, r) == [i \in 1..Len(s) |-> IF s[i] \in chars THEN r ELSE s[i]]

-----------------------------------------------------------------------------
(* configparser.ConfigParser as ConfigManager uses it.  A parser state is  *)
(* a function from section names to functions from option names to values; *)
(* the file is a function from section names to its "option = value"       *)
(* lines.                                                                  *)

\* ConfigParser.optionxform: option names are lower-cased.
optionxform(o) == Lower(o)

has_section(cfg, s) == s \in DOMAIN cfg

has_option(cfg, s, o) == s \in DOMAIN cfg /\ optionxform(o) \in DOMAIN cfg[s]

add_section(cfg, s) ==
    [x \in DOMAIN cfg \cup {s} |-> IF x \in DOMAIN cfg THEN cfg[x] ELSE <<>>]

\* set that replaces the options of the section by the one it writes.
config_set_Replace(cfg, s, o, v) == [cfg EXCEPT ![s] = (optionxform(o) :> v)]

config_set(cfg, s, o, v) ==
    [cfg EXCEPT ![s] = [x \in DOMAIN cfg[s] \cup {optionxform(o)} |->
                            IF x = optionxform(o) THEN v ELSE cfg[s][x]]]

\* remove_section that empties the section and keeps its header.
remove_section_Clear(cfg, s) == [x \in DOMAIN cfg |-> IF x = s THEN <<>> ELSE cfg[x]]

remove_section(cfg, s) == [x \in DOMAIN cfg \ {s} |-> cfg[x]]

\* ConfigParser.write: one line "option = value" per option.
WriteLine(o, v) == o \o <<" ", "=", " ">> \o v

write(cfg) == [s \in DOMAIN cfg |-> {WriteLine(o, cfg[s][o]) : o \in DOMAIN cfg[s]}]

\* ConfigParser._read on one option line: the option is what precedes the
\* first delimiter, stripped and lower-cased; the value is the rest, stripped.
ParseLine(line) ==
    LET i == FindFirst(line, {"=", ":"}, 1)
    IN  [option |-> optionxform(Strip(SubSeq(line, 1, i - 1))),
         value  |-> Strip(DropFirst(line, i))]

\* ConfigParser.read: the file's sections and options are merged into the
\* parser state, the file winning.
read(cfg, f) ==
    [s \in DOMAIN cfg \cup DOMAIN f |->
        LET old    == IF s \in DOMAIN cfg THEN cfg[s] ELSE <<>>
            parsed == IF s \in DOMAIN f THEN {ParseLine(l) : l \in f[s]} ELSE {}
            opts   == {p.option : p \in parsed}
        IN  [o \in DOMAIN old \cup opts |->
                IF o \in opts
                THEN (CHOOSE p \in parsed : p.option = o).value
                ELSE old[o]]]

-----------------------------------------------------------------------------
(* ConfigManager                                                           *)

\* _create_default_config: the seed sections, before they are saved.
DefaultConfig ==
    (p_default \o k_paths) :> (k_workspace_base :> v_tickets
                               @@ k_tools_library_path :> v_tools)
    @@ (p_default \o k_branches) :> (k_standard_branches :> v_standard_branches)
    @@ (p_default \o k_ticket_pattern) :> (k_prefix_pattern :> v_prefix_pattern
                                           @@ k_separator :> v_separator
                                           @@ k_number_pattern :> v_number_pattern
                                           @@ k_description_pattern :> v_description_pattern)
    @@ (p_default \o k_links) :> (k_current_ticket_link_locations :> v_Downloads
                                  @@ k_current_ticket_link_filename :> v_CurrentTicket
                                  @@ k_tools_to_link :> v_tools_to_link)

\* _save_config: the file written from the parser state.
SaveConfig(cfg) == write(cfg)

\* _load_config: the file read into the parser state.
LoadConfig(cfg, f) == read(cfg, f)

\* ConfigManager(config_file) on an existing file: an empty parser, loaded.
NewConfig(f) == LoadConfig(<<>>, f)

\* get with the default consulted before the repository override.
Get_DefaultFirst(cfg, inst, section, key, fallback, rid) ==
    LET effective_repo_id == IF rid # None THEN rid ELSE inst
        repo_section      == p_repo \o effective_repo_id
        dot_key           == section \o <<".">> \o key
        default_section   == p_default \o section
    IN  IF has_section(cfg, default_section) /\ has_option(cfg, default_section, key)
        THEN cfg[default_section][optionxform(key)]
        ELSE IF /\ Truthy(effective_repo_id)
                /\ has_section(cfg, repo_section)
                /\ has_option(cfg, repo_section, dot_key)
        THEN cfg[repo_section][optionxform(dot_key)]
        ELSE IF Truthy(fallback) THEN fallback ELSE <<>>

\* get that takes the override of any repository section holding the key.
Get_AnyRepo(cfg, inst, section, key, fallback, rid) ==
    LET dot_key         == section \o <<".">> \o key
        default_section == p_default \o section
        holders         == {x \in DOMAIN cfg : StartsWith(x, p_repo) /\ has_option(cfg, x, dot_key)}
    IN  IF holders # {}
        THEN cfg[CHOOSE x \in holders : TRUE][optionxform(dot_key)]
        ELSE IF has_section(cfg, default_section) /\ has_option(cfg, default_section, key)
        THEN cfg[default_section][optionxform(key)]
        ELSE IF Truthy(fallback) THEN fallback ELSE <<>>

\* ConfigManager.get
Get(cfg, inst, section, key, fallback, rid) ==
    LET effective_repo_id == IF rid # None THEN rid ELSE inst
        repo_section      == p_repo \o effective_repo_id
        dot_key           == section \o <<".">> \o key
        default_section   == p_default \o section
    IN  IF /\ Truthy(effective_repo_id)
           /\ has_section(cfg, repo_section)
           /\ has_option(cfg, repo_section, dot_key)
        THEN cfg[repo_section][optionxform(dot_key)]
        ELSE IF has_section(cfg, default_section) /\ has_option(cfg, default_section, key)
        THEN cfg[default_section][optionxform(key)]
        ELSE IF Truthy(fallback) THEN fallback ELSE <<>>

\* set that looks at repo_id before default.
SetTarget_RepoFirst(section, key, rid, dflt) ==
    IF Truthy(rid) THEN [section |-> p_repo \o rid, key |-> section \o <<".">> \o key]
    ELSE IF dflt THEN [section |-> p_default \o section, key |-> key]
    ELSE [section |-> section, key |-> key]

\* The section and the option ConfigManager.set writes to.
SetTarget(section, key, rid, dflt) ==
    IF dflt THEN [section |-> p_default \o section, key |-> key]
    ELSE IF Truthy(rid) THEN [section |-> p_repo \o rid, key |-> section \o <<".">> \o key]
    ELSE [section |-> section, key |-> key]

\* ConfigManager.set up to the save: the parser state that is written.
SetMem(cfg, section, key, value, rid, dflt) ==
    LET t  == SetTarget(section, key, rid, dflt)
        c1 == IF has_section(cfg, t.section) THEN cfg ELSE add_section(cfg, t.section)
    IN  config_set(c1, t.section, t.key, value)

\* ConfigManager.get_repo_config: the options of the repository section.
GetRepoConfig(cfg, rid) ==
    IF has_section(cfg, p_repo \o rid) THEN cfg[p_repo \o rid] ELSE <<>>

\* ConfigManager.repo_is_configured
RepoIsConfigured(cfg, rid) ==
    has_section(cfg, p_repo \o rid) /\ DOMAIN cfg[p_repo \o rid] # {}

\* ConfigManager.list_configured_repos (as a set)
ListConfiguredRepos(cfg) ==
    {DropFirst(s, Len(p_repo)) : s \in {x \in DOMAIN cfg : StartsWith(x, p_repo)}}

-----------------------------------------------------------------------------
(* pathlib and the filesystem.  A path is the sequence of its components;  *)
(* an absolute path starts with the component "/".  The filesystem maps    *)
(* the physical path of every entry to its kind (and a symlink's target).  *)

RootName == <<"/">>
RootPath == <<RootName>>
HomeStr == <<"/", "h">>
HomePath == <<RootName, <<"h">>>>

\* str.split(c)
RECURSIVE SplitOn(_, _)
SplitOn(s, c) ==
    LET i == FindFirst(s, {c}, 1)
    IN  IF i = 0 THEN <<s>>
        ELSE <<SubSeq(s, 1, i - 1)>> \o SplitOn(DropFirst(s, i), c)

\* pathlib.Path(s): empty and "." components are dropped.
ParsePath(s) ==
    LET parts == SelectSeq(SplitOn(s, "/"), LAMBDA x : x # <<>> /\ x # <<".">>)
    IN  IF s # <<>> /\ s[1] = "/" THEN RootPath \o parts ELSE parts

\* os.path.expanduser
ExpandUser(s) ==
    IF s # <<>> /\ s[1] = "~" /\ (Len(s) = 1 \/ s[2] = "/")
    THEN HomeStr \o Tail(s)
    ELSE s

\* Path / s, for a str s
Join(p, s) == IF s # <<>> /\ s[1] = "/" THEN ParsePath(s) ELSE p \o ParsePath(s)

Parent(p) == IF Len(p) <= 1 THEN p ELSE SubSeq(p, 1, Len(p) - 1)

Name(p) == IF p = <<>> THEN <<>> ELSE p[Len(p)]

Dir == [kind |-> "dir", target |-> <<>>]
File == [kind |-> "file", target |-> <<>>]

\* A directory the process may not search: no entry below it can be stat'ed.
NoSearchDir == [kind |-> "dir", target |-> <<>>, search |-> FALSE]
Link(t) == [kind |-> "link", target |-> t]

\* How many symlinks the system follows in one resolution.
MaxLinkDepth == 3

\* The path a resolution ends in when it meets too many symlinks.
ELoop == <<<<"ELOOP">>>>

\* The physical path of p: every component that is a symlink is replaced
\* by the physical path of its target.
RECURSIVE RealFrom(_, _, _, _, _)
RealFrom(f, cur, p, i, fuel) ==
    IF i > Len(p) THEN cur
    ELSE LET cand == Append(cur, p[i])
         IN  IF cand \in DOMAIN f /\ f[cand].kind = "link"
             THEN IF fuel = 0 THEN ELoop
                  ELSE LET t == RealFrom(f, <<>>, f[cand].target, 1, fuel - 1)
                       IN  IF t = ELoop THEN ELoop ELSE RealFrom(f, t, p, i + 1, fuel)
             ELSE RealFrom(f, cand, p, i + 1, fuel)

Real(f, p) == RealFrom(f, <<>>, p, 1, MaxLinkDepth)

\* The physical path of the entry p itself, a final symlink not followed.
LReal(f, p) ==
    IF p = <<>> THEN p
    ELSE LET d == Real(f, Parent(p))
         IN  IF Len(p) = 1 THEN p ELSE IF d = ELoop THEN ELoop ELSE Append(d, Name(p))

\* Path.exists / is_dir / is_symlink
Exists(f, p) == Real(f, p) \in DOMAIN f
IsDir(f, p) == LET r == Real(f, p) IN r \in DOMAIN f /\ f[r].kind = "dir"
IsSymlink(f, p) == LET r == LReal(f, p) IN r \in DOMAIN f /\ f[r].kind = "link"
LExists(f, p) == LReal(f, p) \in DOMAIN f

Prefixes(p) == {SubSeq(p, 1, n) : n \in 1..Len(p)}

\* os.stat(p) fails with EACCES: a directory on the way to p may not be
\* searched.  Path.exists and Path.is_dir pass this error on where pathlib
\* ignores only ENOENT, ENOTDIR, EBADF and ELOOP (strict), and answer False
\* where they are built on os.path.exists.
StatDenied(f, p) ==
    LET r == Real(f, p)
    IN  \E q \in Prefixes(r) : q # r /\ q \in DOMAIN f /\ f[q] = NoSearchDir

\* Path.mkdir(parents=True, exist_ok=True) succeeds unless a component of
\* the path exists and is no directory.
CanMkdirP(f, p) ==
    LET r == Real(f, p)
    IN  /\ r # ELoop
        /\ \A q \in Prefixes(r) : q \in DOMAIN f => f[q].kind = "dir"
        /\ \A q \in Prefixes(p) : LExists(f, q) => IsDir(f, q)

MkdirP(f, p) ==
    LET r   == Real(f, p)
        new == {q \in Prefixes(r) : q \notin DOMAIN f}
    IN  IF new = {} THEN f
        ELSE [q \in DOMAIN f \cup new |-> IF q \in DOMAIN f THEN f[q] ELSE Dir]

\* Path.unlink / Path.rmdir of an empty directory: the entry is removed.
RemoveEntry(f, p) == LET r == LReal(f, p) IN [q \in DOMAIN f \ {r} |-> f[q]]

IsUnder(q, d) == Len(q) >= Len(d) /\ SubSeq(q, 1, Len(d)) = d

\* shutil.rmtree: the directory and everything below it is removed.
RmTree(f, p) ==
    LET r == LReal(f, p) IN [q \in {x \in DOMAIN f : ~IsUnder(x, r)} |-> f[q]]

\* Path.symlink_to succeeds when the parent is a directory and the name is free.
CanSymlink(f, p) ==
    LET r == LReal(f, p) IN IsDir(f, Parent(p)) /\ r \notin DOMAIN f /\ r # ELoop

Symlink(f, p, t) ==
    LET r == LReal(f, p) IN [q \in DOMAIN f \cup {r} |-> IF q = r THEN Link(t) ELSE f[q]]

\* The names of the entries of directory d.
Listing(f, d) ==
    LET r == Real(f, d)
    IN  {Name(q) : q \in {x \in DOMAIN f : Len(x) = Len(r) + 1 /\ Parent(x) = r}}

\* The order of the characters, by which a directory is enumerated.
Alphabet ==
    <<" ", "-", ".", "/", "0", "1", "2", "3", "4", "5", "6", "7", "8", "9", ":">>
    \o UpperLetters \o <<"_">> \o LowerLetters \o <<"~">>

AlphabetSet == {Alphabet[i] : i \in 1..Len(Alphabet)}
RankOf == [c \in AlphabetSet |-> CHOOSE i \in 1..Len(Alphabet) : Alphabet[i] = c]

CharRank(c) == IF c \in AlphabetSet THEN RankOf[c] ELSE 0

RECURSIVE LexLess(_, _)
LexLess(a, b) ==
    IF b = <<>> THEN FALSE
    ELSE IF a = <<>> THEN TRUE
    ELSE IF a[1] = b[1] THEN LexLess(Tail(a), Tail(b))
    ELSE CharRank(a[1]) < CharRank(b[1])

\* Path.iterdir enumerates in an order the filesystem fixes: a comes before b.
EnumBefore(desc, a, b) == IF desc THEN LexLess(b, a) ELSE LexLess(a, b)

-----------------------------------------------------------------------------
(* ConfigManager.get_path / get_list                                       *)

\* ConfigManager.get_path
GetPath(cfg, inst, section, key, fallback, rid) ==
    LET effective_repo_id == IF rid # None THEN rid ELSE inst
        value == Get(cfg, inst, section, key, fallback, effective_repo_id)
    IN  IF value # <<>> THEN ParsePath(ExpandUser(value))
        ELSE IF Truthy(fallback) THEN ParsePath(fallback)
        ELSE HomePath

\* [item.strip() for item in value.split(',') if item.strip()]
SplitList(value) ==
    LET items == SplitOn(value, ",")
    IN  SelectSeq([i \in 1..Len(items) |-> Strip(items[i])], LAMBDA x : x # <<>>)

\* ConfigManager.get_list (with no fallback list)
GetList(cfg, inst, section, key, rid) ==
    LET effective_repo_id == IF rid # None THEN rid ELSE inst
        value == Get(cfg, inst, section, key, None, effective_repo_id)
    IN  IF value # <<>> THEN SplitList(value) ELSE <<>>

Range(q) == {q[i] : i \in 1..Len(q)}

-----------------------------------------------------------------------------
(* BranchAnalyzer, for the seeded ticket grammar: one to ten letters, a     *)
(* separator - or _, one or more digits, a separator, any description;     *)
(* anchored at both ends.                                                  *)

Letters == UpperSet \cup LowerSet
Digits == {"0", "1", "2", "3", "4", "5", "6", "7", "8", "9"}
Separators == {"-", "_"}

\* The length of the longest prefix of s made of characters of chars.
RECURSIVE RunLen(_, _)
RunLen(s, chars) ==
    IF s # <<>> /\ s[1] \in chars THEN 1 + RunLen(Tail(s), chars) ELSE 0

NoTicket == [match |-> FALSE, prefix |-> <<>>, number |-> <<>>, description |-> <<>>]

\* BranchAnalyzer.extract_ticket_info
ExtractTicketInfo(branch_name) ==
    LET n1   == RunLen(branch_name, Letters)
        rest == DropFirst(branch_name, n1 + 1)
        n2   == RunLen(rest, Digits)
    IN  IF /\ n1 >= 1 /\ n1 <= 10
           /\ Len(branch_name) > n1 /\ branch_name[n1 + 1] \in Separators
           /\ n2 >= 1
           /\ Len(rest) > n2 /\ rest[n2 + 1] \in Separators
        THEN [match |-> TRUE, prefix |-> SubSeq(branch_name, 1, n1),
              number |-> SubSeq(rest, 1, n2), description |-> DropFirst(rest, n2 + 1)]
        ELSE NoTicket

\* is_standard_branch that lower-cases the branch name before the lookup.
IsStandardBranch_Lower(cfg, inst, branch_name) ==
    Lower(branch_name) \in Range(GetList(cfg, inst, k_branches, k_standard_branches, None))

\* BranchAnalyzer.is_standard_branch
IsStandardBranch(cfg, inst, branch_name) ==
    branch_name \in Range(GetList(cfg, inst, k_branches, k_standard_branches, None))

-----------------------------------------------------------------------------
(* DirectoryManager                                                        *)

InvalidChars == {"<", ">", ":", "\"", "/", "\\", "|", "?", "*"}

\* str.replace(sub, '')
RECURSIVE RemoveAll(_, _)
RemoveAll(s, sub) ==
    IF s = <<>> THEN s
    ELSE IF StartsWith(s, sub) THEN RemoveAll(DropFirst(s, Len(sub)), sub)
    ELSE <<s[1]>> \o RemoveAll(Tail(s), sub)

\* s[:n]
Take(s, n) == IF Len(s) > n THEN SubSeq(s, 1, n) ELSE s

\* DirectoryManager._sanitize_repo_name
SanitizeRepoName(rid) ==
    LET name == IF StartsWith(rid, p_local) THEN RemoveAll(rid, p_local) ELSE rid
    IN  Take(ReplaceChars(name, InvalidChars, "_"), 255)

\* str.upper() on one character.
UpperChar(c) == IF c \in LowerSet THEN UpperOf[c] ELSE c

\* str.upper()
Upper(s) == [i \in 1..Len(s) |-> UpperChar(s[i])]

Reserved ==
    {<<"C", "O", "N">>, <<"P", "R", "N">>, <<"A", "U", "X">>, <<"N", "U", "L">>}
    \cup {<<"C", "O", "M", d>> : d \in Digits \ {"0"}}
    \cup {<<"L", "P", "T", d>> : d \in Digits \ {"0"}}

\* max(a, b)
Max(a, b) == IF a >= b THEN a ELSE b

\* DirectoryManager.sanitize_directory_name
SanitizeDirectoryName(name, windows) ==
    LET replaced == ReplaceChars(name, InvalidChars, "_")
        stripped == StripChars(replaced, {".", " "})
        safe     == IF Upper(stripped) \in Reserved THEN <<"_">> \o stripped ELSE stripped
        workspace_path_len == 100
        max_name_len == Max(50, 260 - workspace_path_len - 50)
    IN  IF windows THEN Take(safe, max_name_len) ELSE Take(safe, 255)

\* DirectoryManager.get_workspace_base: the path it resolves, before the mkdir.
WorkspaceBase(cfg, inst, rid) ==
    LET workspace_base == GetPath(cfg, inst, k_paths, k_workspace_base, None, rid)
        default_workspace_base ==
            GetPath(cfg, inst, k_paths, k_workspace_base, v_tickets, None)
    IN  IF Truthy(rid) /\ workspace_base = default_workspace_base
        THEN Join(workspace_base, SanitizeRepoName(rid))
        ELSE workspace_base

\* The pattern without re.IGNORECASE.
TicketDirMatches_CaseSensitive(dir_name, prefix, number) ==
    LET rest == DropFirst(dir_name, Len(prefix) + 1)
    IN  /\ StartsWith(dir_name, prefix)
        /\ Len(dir_name) > Len(prefix) /\ dir_name[Len(prefix) + 1] \in Separators
        /\ StartsWith(rest, number)
        /\ (Len(rest) = Len(number) \/ rest[Len(number) + 1] \in Separators)

\* The pattern of find_existing_ticket_dir, on a directory name: the prefix,
\* a separator - or _, the number, then the end or a separator and anything;
\* anchored at both ends, case ignored.
TicketDirMatches(dir_name, prefix, number) ==
    LET n    == Lower(dir_name)
        p    == Lower(prefix)
        k    == Lower(number)
        rest == DropFirst(n, Len(p) + 1)
    IN  /\ StartsWith(n, p)
        /\ Len(n) > Len(p) /\ n[Len(p) + 1] \in Separators
        /\ StartsWith(rest, k)
        /\ (Len(rest) = Len(k) \/ rest[Len(k) + 1] \in Separators)

NonePath == <<None>>

\* find_existing_ticket_dir without the is_dir test.
FindExistingTicketDir_AnyEntry(f, desc, workspace_base, prefix, number) ==
    LET found == {n \in Listing(f, workspace_base) : TicketDirMatches(n, prefix, number)}
    IN  IF ~Exists(f, workspace_base) \/ found = {} THEN NonePath
        ELSE Join(workspace_base,
                  CHOOSE n \in found : \A m \in found \ {n} : EnumBefore(desc, n, m))

\* DirectoryManager.find_existing_ticket_dir, once the workspace base is
\* there: the first matching directory that iterdir yields, or None.
FindExistingTicketDir(f, desc, workspace_base, prefix, number) ==
    LET found == {n \in Listing(f, workspace_base) :
                     /\ IsDir(f, Join(workspace_base, n))
                     /\ TicketDirMatches(n, prefix, number)}
    IN  IF ~Exists(f, workspace_base) \/ found = {} THEN NonePath
        ELSE Join(workspace_base,
                  CHOOSE n \in found : \A m \in found \ {n} : EnumBefore(desc, n, m))

\* A mkdir without exist_ok, where it finds the directory there: what the
\* caller is left with is the path with a numbered sibling made instead.
MkTicketDir_Sibling(f, ticket_dir) ==
    IF IsDir(f, ticket_dir)
    THEN MkdirP(f, Append(Parent(ticket_dir), Name(ticket_dir) \o <<"_", "1">>))
    ELSE MkdirP(f, ticket_dir)

\* The mkdir of create_ticket_directory.
MkTicketDir(f, ticket_dir) == MkdirP(f, ticket_dir)

\* DirectoryManager.create_ticket_directory: whether it returns, the
\* directory it returns, and the filesystem it leaves.
CreateTicketDirectoryResult(cfg, inst, f, desc, windows, branch_name, ticket_info, rid) ==
    LET workspace_base == WorkspaceBase(cfg, inst, rid)
        f1             == MkdirP(f, workspace_base)
        existing       == FindExistingTicketDir(f1, desc, workspace_base,
                                                ticket_info.prefix, ticket_info.number)
        sanitized_name == SanitizeDirectoryName(branch_name, windows)
        ticket_dir     == Join(workspace_base, sanitized_name)
    IN  IF ~CanMkdirP(f, workspace_base) THEN [ok |-> FALSE, path |-> NonePath, fs |-> f]
        ELSE IF existing # NonePath THEN [ok |-> TRUE, path |-> existing, fs |-> f1]
        ELSE IF ~CanMkdirP(f1, ticket_dir) THEN [ok |-> FALSE, path |-> NonePath, fs |-> f1]
        ELSE [ok |-> TRUE, path |-> ticket_dir, fs |-> MkTicketDir(f1, ticket_dir)]

-----------------------------------------------------------------------------
(* ToolsLinker and CurrentTicketLinker                                     *)

\* The try block with the entry found at target kept under another name.
ReplaceWithLink_Backup(f, target, source) ==
    LET r    == LReal(f, target)
        kept == Parent(r) \o <<Name(r) \o <<"~">>>>
        f1   == IF r \in DOMAIN f
                THEN [q \in (DOMAIN f \ {r}) \cup {kept} |-> IF q = kept THEN f[r] ELSE f[q]]
                ELSE f
    IN  IF CanSymlink(f1, target)
        THEN [ok |-> TRUE, fs |-> Symlink(f1, target, source)]
        ELSE [ok |-> FALSE, fs |-> f1]

\* The try block of both linkers: whatever is at target is removed (a
\* symlink or a file unlinked, a directory removed with its content), then
\* the symlink to source is created.  ok is FALSE when symlink_to raises.
ReplaceWithLink(f, target, source) ==
    LET f1 == IF Exists(f, target) \/ IsSymlink(f, target)
              THEN IF IsSymlink(f, target) THEN RemoveEntry(f, target)
                   ELSE IF IsDir(f, target) THEN RmTree(f, target)
                   ELSE RemoveEntry(f, target)
              ELSE f
    IN  IF CanSymlink(f1, target)
        THEN [ok |-> TRUE, fs |-> Symlink(f1, target, source)]
        ELSE [ok |-> FALSE, fs |-> f1]

Error(kind, what) == [kind |-> kind, what |-> what]

\* The loop of ToolsLinker.link_tools, from the i-th tool on.  raised tells
\* that source.exists() raised, which ends link_tools with the exception.
RECURSIVE LinkToolsFrom(_, _, _, _, _, _, _)
LinkToolsFrom(f, tools_library_path, tools_to_link, i, ticket_dir, errors, strict) ==
    IF i > Len(tools_to_link) THEN [fs |-> f, errors |-> errors, raised |-> FALSE]
    ELSE LET tool_name == tools_to_link[i]
             source    == Join(tools_library_path, tool_name)
             target    == Join(ticket_dir, tool_name)
             r         == ReplaceWithLink(f, target, source)
         IN  IF strict /\ StatDenied(f, source)
             THEN [fs |-> f, errors |-> errors, raised |-> TRUE]
             ELSE IF StatDenied(f, source) \/ ~Exists(f, source)
             THEN LinkToolsFrom(f, tools_library_path, tools_to_link, i + 1, ticket_dir,
                                Append(errors, Error("tool item not found", source)), strict)
             ELSE LinkToolsFrom(r.fs, tools_library_path, tools_to_link, i + 1, ticket_dir,
                                IF r.ok THEN errors
                                ELSE Append(errors, Error("failed to link", target)), strict)

\* ToolsLinker.link_tools, with the paths ToolsLinker.__init__ reads.
LinkTools(cfg, inst, f, ticket_dir, strict) ==
    LET tools_library_path == GetPath(cfg, inst, k_paths, k_tools_library_path, None, None)
        tools_to_link      == GetList(cfg, inst, k_links, k_tools_to_link, None)
    IN  IF strict /\ StatDenied(f, tools_library_path)
        THEN [fs |-> f, errors |-> <<>>, raised |-> TRUE]
        ELSE IF StatDenied(f, tools_library_path) \/ ~Exists(f, tools_library_path)
        THEN [fs |-> f, raised |-> FALSE,
              errors |-> <<Error("tools library path does not exist", tools_library_path)>>]
        ELSE LinkToolsFrom(f, tools_library_path, tools_to_link, 1, ticket_dir, <<>>, strict)

\* CurrentTicketLinker.get_link_locations
GetLinkLocations(cfg, inst, rid) ==
    LET locs == SplitList(Get(cfg, inst, k_links, k_current_ticket_link_locations, <<>>, rid))
    IN  [i \in 1..Len(locs) |-> ParsePath(ExpandUser(locs[i]))]

\* CurrentTicketLinker.get_link_filename
GetLinkFilename(cfg, inst, rid) ==
    LET filename == Get(cfg, inst, k_links, k_current_ticket_link_filename,
                        v_CurrentTicket, rid)
    IN  IF filename # <<>> THEN filename ELSE v_CurrentTicket

\* The loop of update_current_ticket_link, from the i-th location on.
\* raised tells that location.exists() or location.is_dir() raised, which
\* ends update_current_ticket_link with the exception.
RECURSIVE UpdateLinkFrom(_, _, _, _, _, _, _)
UpdateLinkFrom(f, link_locations, link_name, i, ticket_dir, errors, strict) ==
    IF i > Len(link_locations) THEN [fs |-> f, errors |-> errors, raised |-> FALSE]
    ELSE LET location == link_locations[i]
             denied   == StatDenied(f, location)
             absent   == denied \/ ~Exists(f, location)
             made     == absent /\ ~denied /\ CanMkdirP(f, location)
             f1       == IF made THEN MkdirP(f, location) ELSE f
             target   == Join(location, link_name)
             r        == ReplaceWithLink(f1, target, ticket_dir)
         IN  IF strict /\ denied
             THEN [fs |-> f, errors |-> errors, raised |-> TRUE]
             ELSE IF absent /\ ~made
             THEN UpdateLinkFrom(f, link_locations, link_name, i + 1, ticket_dir,
                                 Append(errors, Error("cannot be created", location)), strict)
             ELSE IF ~IsDir(f1, location)
             THEN UpdateLinkFrom(f1, link_locations, link_name, i + 1, ticket_dir,
                                 Append(errors, Error("not a directory", location)), strict)
             ELSE UpdateLinkFrom(r.fs, link_locations, link_name, i + 1, ticket_dir,
                                 IF r.ok THEN errors
                                 ELSE Append(errors, Error("failed to create link", target)),
                                 strict)

\* CurrentTicketLinker.update_current_ticket_link
UpdateCurrentTicketLink(cfg, inst, f, ticket_dir, rid, strict) ==
    UpdateLinkFrom(f, GetLinkLocations(cfg, inst, rid), GetLinkFilename(cfg, inst, rid),
                   1, ticket_dir, <<>>, strict)

-----------------------------------------------------------------------------
(* Inputs of the configuration operations.                                 *)

r_one == <<"h", "/", "a">>
r_two == <<"l", "o", "c", "a", "l", "/", "b">>
r_h_a == <<"h", "_", "a">>
k_WORKSPACE_BASE == <<"W", "O", "R", "K", "S", "P", "A", "C", "E", "_", "B", "A", "S", "E">>
v_c == <<"/", "c">>
v_blank_c == <<" ", "/", "c">>
v_fallback == <<"f">>

Repos == {r_one, r_two}
OptRepos == {None} \cup Repos
SetSections == {k_paths}
SetKeys == {k_workspace_base, k_WORKSPACE_BASE}
SetValues == {v_c, v_blank_c}
Fallbacks == {None, <<>>, v_fallback}

\* What the last operation was and what it returned.
NoLast ==
    [op |-> "init", section |-> <<>>, key |-> <<>>, value |-> <<>>, rid |-> None,
     dflt |-> FALSE, ok |-> TRUE, path |-> <<>>, branch |-> <<>>,
     prefix |-> <<>>, number |-> <<>>, errors |-> <<>>, again |-> FALSE,
     result |-> <<>>]

\* The operation and the arguments of a record of last.
Args(l) == <<l.op, l.section, l.key, l.value, l.rid, l.dflt, l.branch, l.prefix, l.number>>

\* The record of the operation just done; again tells that the operation
\* before it was the same, with the same arguments.
Done(l) == [l EXCEPT !.again = (Args(last) = Args(l))]

-----------------------------------------------------------------------------
(* Configuration operations.                                               *)

\* ConfigManager.set: the option is set, the file saved and loaded again.
Set(section, key, value, rid, dflt) ==
    LET mem == SetMem(config, section, key, value, rid, dflt)
        f   == SaveConfig(mem)
    IN  /\ file' = f
        /\ config' = LoadConfig(mem, file')
        /\ last' = Done([NoLast EXCEPT !.op = "set", !.section = section, !.key = key,
                                  !.value = value, !.rid = rid, !.dflt = dflt])
        /\ overrides' = IF ~dflt /\ Truthy(rid)
                        THEN (<<rid, section, optionxform(key)>> :> value) @@ overrides
                        ELSE overrides
        /\ UNCHANGED <<repo_id, fs, enum_desc, is_windows, git, other, pc, seen>>

\* ConfigManager.remove_repo_config
RemoveRepoConfig(rid) ==
    LET repo_section == p_repo \o rid
        mem          == remove_section(config, repo_section)
        f            == SaveConfig(mem)
    IN  /\ IF has_section(config, repo_section)
           THEN /\ file' = f
                /\ config' = LoadConfig(mem, file')
                /\ last' = Done([NoLast EXCEPT !.op = "remove", !.rid = rid, !.ok = TRUE])
           ELSE /\ UNCHANGED <<file, config>>
                /\ last' = Done([NoLast EXCEPT !.op = "remove", !.rid = rid, !.ok = FALSE])
        /\ overrides' = [k \in {x \in DOMAIN overrides : x[1] # rid} |-> overrides[k]]
        /\ UNCHANGED <<repo_id, fs, enum_desc, is_windows, git, other, pc, seen>>

\* ConfigManager.__init__ on the existing file, as a new process does.
NewConfigManager(rid) ==
    /\ config' = NewConfig(file)
    /\ repo_id' = rid
    /\ last' = Done([NoLast EXCEPT !.op = "new", !.rid = rid])
    /\ UNCHANGED <<file, fs, enum_desc, is_windows, git, overrides, other, pc, seen>>

\* ConfigManager.__init__ where no file exists yet: the seed is saved, then loaded.
InitConfig ==
    /\ file = SaveConfig(DefaultConfig)
    /\ config = LoadConfig(DefaultConfig, SaveConfig(DefaultConfig))
    /\ repo_id \in OptRepos

InitC ==
    /\ InitConfig
    /\ fs = <<>>
    /\ enum_desc = FALSE
    /\ is_windows = FALSE
    /\ git = NoGit
    /\ other = <<>>
    /\ pc = "idle"
    /\ overrides = <<>>
    /\ seen = <<>>
    /\ last = NoLast

NextC ==
    \/ \E section \in SetSections, key \in SetKeys, value \in SetValues,
          rid \in OptRepos, dflt \in BOOLEAN : Set(section, key, value, rid, dflt)
    \/ \E rid \in Repos : RemoveRepoConfig(rid)
    \/ \E rid \in {None, r_one} : NewConfigManager(rid)

SpecC == InitC /\ [][NextC]_vars

\* The lookups of ConfigManager: each returns its result and writes nothing.
Lookup(l) ==
    /\ last' = Done(l)
    /\ UNCHANGED <<config, repo_id, file, fs, enum_desc, is_windows, git, overrides,
                   other, pc, seen>>

CallGet(section, key, fallback, rid) ==
    Lookup([NoLast EXCEPT !.op = "get", !.section = section, !.key = key, !.rid = rid,
                          !.result = Get(config, repo_id, section, key, fallback, rid)])

CallGetPath(section, key, fallback, rid) ==
    Lookup([NoLast EXCEPT !.op = "get_path", !.section = section, !.key = key, !.rid = rid,
                          !.result = GetPath(config, repo_id, section, key, fallback, rid)])

CallGetList(section, key, rid) ==
    Lookup([NoLast EXCEPT !.op = "get_list", !.section = section, !.key = key, !.rid = rid,
                          !.result = GetList(config, repo_id, section, key, rid)])

CallGetRepoConfig(rid) ==
    Lookup([NoLast EXCEPT !.op = "get_repo_config", !.rid = rid,
                          !.result = GetRepoConfig(config, rid)])

CallRepoIsConfigured(rid) ==
    Lookup([NoLast EXCEPT !.op = "repo_is_configured", !.rid = rid,
                          !.result = RepoIsConfigured(config, rid)])

CallListConfiguredRepos ==
    Lookup([NoLast EXCEPT !.op = "list_configured_repos",
                          !.result = ListConfiguredRepos(config)])

LookupOps ==
    {"get", "get_path", "get_list", "get_repo_config", "repo_is_configured",
     "list_configured_repos"}

\* The configuration store with its lookups.
NextL ==
    \/ \E key \in SetKeys, value \in {v_c}, rid \in OptRepos, dflt \in BOOLEAN :
          Set(k_paths, key, value, rid, dflt)
    \/ \E rid \in Repos : RemoveRepoConfig(rid)
    \/ \E rid \in {None, r_one} : NewConfigManager(rid)
    \/ \E rid \in OptRepos : CallGet(k_paths, k_workspace_base, None, rid)
    \/ \E rid \in OptRepos : CallGetPath(k_paths, k_workspace_base, None, rid)
    \/ \E rid \in OptRepos : CallGetList(k_links, k_tools_to_link, rid)
    \/ \E rid \in Repos : CallGetRepoConfig(rid)
    \/ \E rid \in Repos : CallRepoIsConfigured(rid)
    \/ CallListConfiguredRepos

SpecL == InitC /\ [][NextL]_vars

\* How _save_config can fail: open(config_file, 'w') raises and the file is
\* as it was, or the file is opened, which empties it, and the write raises.
SaveFailures == {"open", "write"}

FailedSave(f, how) == IF how = "open" THEN f ELSE <<>>

\* ConfigManager.set when _save_config raises: the option is set in the
\* parser state, the exception leaves set before _load_config.
SetFails(section, key, value, rid, dflt, how) ==
    /\ config' = SetMem(config, section, key, value, rid, dflt)
    /\ file' = FailedSave(file, how)
    /\ last' = Done([NoLast EXCEPT !.op = "set", !.section = section, !.key = key,
                              !.value = value, !.rid = rid, !.dflt = dflt,
                              !.ok = FALSE, !.result = "raised"])
    /\ UNCHANGED <<repo_id, fs, enum_desc, is_windows, git, overrides, other, pc, seen>>

\* ConfigManager.remove_repo_config when _save_config raises: the section
\* is removed from the parser state.
RemoveRepoConfigFails(rid, how) ==
    /\ has_section(config, p_repo \o rid)
    /\ config' = remove_section(config, p_repo \o rid)
    /\ file' = FailedSave(file, how)
    /\ last' = Done([NoLast EXCEPT !.op = "remove", !.rid = rid, !.ok = FALSE,
                              !.result = "raised"])
    /\ UNCHANGED <<repo_id, fs, enum_desc, is_windows, git, overrides, other, pc, seen>>

\* The configuration store on a file whose writes can fail.
NextF ==
    \/ \E rid \in OptRepos, dflt \in BOOLEAN :
          Set(k_paths, k_workspace_base, v_c, rid, dflt)
    \/ \E rid \in Repos : RemoveRepoConfig(rid)
    \/ \E rid \in {None, r_one} : NewConfigManager(rid)
    \/ \E rid \in OptRepos, dflt \in BOOLEAN, how \in SaveFailures :
          SetFails(k_paths, k_workspace_base, v_c, rid, dflt, how)
    \/ \E rid \in Repos, how \in SaveFailures : RemoveRepoConfigFails(rid, how)

SpecF == InitC /\ [][NextF]_vars

-----------------------------------------------------------------------------
(* The configuration file shared by two processes.  _save_config opens the *)
(* file for writing, which empties it, and the content reaches the file    *)
(* when the file is closed; a second ConfigManager reads the same file.    *)

\* ConfigManager.set up to open(config_file, 'w') in _save_config.
SetOpens(section, key, value, rid, dflt) ==
    /\ pc = "idle"
    /\ config' = SetMem(config, section, key, value, rid, dflt)
    /\ seen' = file
    /\ file' = <<>>
    /\ pc' = "opened"
    /\ last' = Done([NoLast EXCEPT !.op = "set", !.section = section, !.key = key,
                              !.value = value, !.rid = rid, !.dflt = dflt, !.ok = FALSE])
    /\ UNCHANGED <<repo_id, fs, enum_desc, is_windows, git, other, overrides>>

\* ConfigManager.remove_repo_config up to open(config_file, 'w').
RemoveRepoConfigOpens(rid) ==
    /\ pc = "idle"
    /\ has_section(config, p_repo \o rid)
    /\ config' = remove_section(config, p_repo \o rid)
    /\ seen' = file
    /\ file' = <<>>
    /\ pc' = "opened"
    /\ last' = Done([NoLast EXCEPT !.op = "remove", !.rid = rid, !.ok = FALSE])
    /\ UNCHANGED <<repo_id, fs, enum_desc, is_windows, git, other, overrides>>

\* The rest of _save_config and of its caller: the parser state is written,
\* the file closed and loaded again.
SaveCloses ==
    /\ pc = "opened"
    /\ file' = SaveConfig(config)
    /\ config' = LoadConfig(config, file')
    /\ pc' = "idle"
    /\ last' = [last EXCEPT !.ok = TRUE]
    /\ UNCHANGED <<repo_id, fs, enum_desc, is_windows, git, other, overrides, seen>>

\* ConfigManager.__init__ in a second process: the file exists, it is loaded.
OtherLoads ==
    /\ other' = NewConfig(file)
    /\ last' = Done([NoLast EXCEPT !.op = "other_load", !.ok = (pc = "idle")])
    /\ UNCHANGED <<config, repo_id, file, fs, enum_desc, is_windows, git, pc, overrides, seen>>

\* ConfigManager.set through the second instance.
OtherSets(section, key, value, rid, dflt) ==
    LET mem == SetMem(other, section, key, value, rid, dflt)
    IN  /\ pc = "idle"
        /\ file' = SaveConfig(mem)
        /\ other' = LoadConfig(mem, file')
        /\ last' = Done([NoLast EXCEPT !.op = "other_set", !.section = section, !.key = key,
                                  !.value = value, !.rid = rid, !.dflt = dflt])
        /\ UNCHANGED <<config, repo_id, fs, enum_desc, is_windows, git, pc, overrides, seen>>

\* Two instances loaded from the seeded file.
InitT ==
    /\ file = SaveConfig(DefaultConfig)
    /\ config = LoadConfig(DefaultConfig, SaveConfig(DefaultConfig))
    /\ repo_id = None
    /\ fs = <<>>
    /\ enum_desc = FALSE
    /\ is_windows = FALSE
    /\ git = NoGit
    /\ other = NewConfig(file)
    /\ pc = "idle"
    /\ overrides = <<>>
    /\ seen = file
    /\ last = NoLast

\* One process writes the configuration while another one loads it.
NextT ==
    \/ \E rid \in {None, r_one}, dflt \in BOOLEAN :
          SetOpens(k_paths, k_workspace_base, v_c, rid, dflt)
    \/ RemoveRepoConfigOpens(r_one)
    \/ SaveCloses
    \/ OtherLoads

SpecT == InitT /\ [][NextT]_vars

\* What the second instance sets.
OtherKeys == {k_workspace_base, k_tools_library_path}

\* Two instances set options in turn, each call running to its end.
NextI ==
    \/ \E rid \in {None, r_one} :
          Set(k_paths, k_workspace_base, v_c, rid, rid = None)
    \/ \E key \in OtherKeys, rid \in {None, r_one} :
          OtherSets(k_paths, key, v_tools, rid, rid = None)
    \/ NewConfigManager(None)
    \/ OtherLoads

SpecI == InitT /\ [][NextI]_vars

-----------------------------------------------------------------------------
(* Inputs and starting states of the workspace operations.                 *)

b_JIRA_1_a == <<"J", "I", "R", "A", "-", "1", "-", "a">>
b_jira_1_b == <<"j", "i", "r", "a", "_", "1", "_", "b", "?">>
b_JIRA_12_b == <<"J", "I", "R", "A", "-", "1", "2", "-", "b">>
b_main == <<"m", "a", "i", "n">>
b_x == <<"x">>
v_main_JIRA_12_b ==
    <<"m", "a", "i", "n", ",", " ", "J", "I", "R", "A", "-", "1", "2", "-", "b">>
v_scripts_Downloads ==
    <<"~", "/", "t", "o", "o", "l", "s", "/", "s", "c", "r", "i", "p", "t", "s", ",", " ",
      "~", "/", "D", "o", "w", "n", "l", "o", "a", "d", "s">>
t_JIRA == <<"J", "I", "R", "A">>
d_JIRA_1_old == <<"J", "I", "R", "A", "-", "1", "-", "o", "l", "d">>
d_jira_1 == <<"j", "i", "r", "a", "_", "1">>
d_JIRA_12_x == <<"J", "I", "R", "A", "-", "1", "2", "-", "x">>
d_JIRAX_1 == <<"J", "I", "R", "A", "X", "-", "1">>
v_tickets_h_a == <<"~", "/", "t", "i", "c", "k", "e", "t", "s", "/", "h", "_", "a">>
n_tools == <<"t", "o", "o", "l", "s">>
n_notebooks == <<"n", "o", "t", "e", "b", "o", "o", "k", "s">>
n_scripts == <<"s", "c", "r", "i", "p", "t", "s">>
n_h_a == <<"h", "_", "a">>

\* The parser state after cfg.set(...), file saved and loaded again.
ConfigAfterSet(cfg, section, key, value, rid, dflt) ==
    LoadConfig(SetMem(cfg, section, key, value, rid, dflt),
               SaveConfig(SetMem(cfg, section, key, value, rid, dflt)))

\* The seed alone.
CfgSeed == LoadConfig(DefaultConfig, SaveConfig(DefaultConfig))

\* r_one has the workspace override /c.
CfgOverride == ConfigAfterSet(CfgSeed, k_paths, k_workspace_base, v_c, r_one, FALSE)

\* r_one has a workspace override that names the default workspace base.
CfgSameAsDefault ==
    ConfigAfterSet(CfgSeed, k_paths, k_workspace_base, v_tickets, r_one, FALSE)

\* The current-ticket links are configured to sit in the workspace of r_one.
CfgLinkLocation ==
    ConfigAfterSet(CfgSeed, k_links, k_current_ticket_link_locations, v_tickets_h_a, None, TRUE)

\* The current-ticket link is configured to sit in the workspace of r_one,
\* under the name of a ticket directory.
CfgLinkInWorkspace ==
    ConfigAfterSet(CfgLinkLocation, k_links, k_current_ticket_link_filename, b_JIRA_1_a,
                   None, TRUE)

\* JIRA-12-b is a standard branch, and the current-ticket link goes to two
\* locations, the first of which is a file of the tools library.
CfgStandardTicket ==
    ConfigAfterSet(CfgSeed, k_branches, k_standard_branches, v_main_JIRA_12_b, None, TRUE)

CfgTwoLocations ==
    ConfigAfterSet(CfgStandardTicket, k_links, k_current_ticket_link_locations,
                   v_scripts_Downloads, None, TRUE)

\* A home directory and nothing else.
FsBase == RootPath :> Dir @@ HomePath :> Dir

\* A tools library with a directory and a file (utils is missing).
FsTools ==
    FsBase
    @@ Join(HomePath, n_tools) :> Dir
    @@ Join(Join(HomePath, n_tools), n_notebooks) :> Dir
    @@ Join(Join(HomePath, n_tools), n_scripts) :> File

\* The tools library may not be searched.
FsToolsDenied == (Join(HomePath, n_tools) :> NoSearchDir) @@ FsTools

\* Ticket directories of earlier checkouts under d, and a plain file.
OldTickets(d) ==
    Join(d, d_JIRA_1_old) :> Dir
    @@ Join(d, d_jira_1) :> Dir
    @@ Join(d, d_JIRA_12_x) :> File

FsOld ==
    FsTools
    @@ ParsePath(v_c) :> Dir
    @@ OldTickets(ParsePath(v_c))
    @@ Join(ParsePath(v_c), n_h_a) :> Dir
    @@ Join(Join(ParsePath(v_c), n_h_a), d_jira_1) :> Dir

Scenario(cfg, inst, f, desc, windows) ==
    [config |-> cfg, repo_id |-> inst, fs |-> f, enum_desc |-> desc, is_windows |-> windows]

\* Starting states of a DirectoryManager.
DirScenarios ==
    { Scenario(CfgSeed, None, FsBase, FALSE, FALSE),
      Scenario(CfgOverride, None, FsOld, FALSE, FALSE),
      Scenario(CfgOverride, r_one, FsOld, TRUE, FALSE),
      Scenario(CfgSameAsDefault, None, FsBase, FALSE, TRUE) }

\* Starting states of a TicketManager, which is built for a repository.
CheckoutScenarios ==
    { Scenario(CfgSeed, r_one, FsTools, TRUE, TRUE),
      Scenario(CfgOverride, r_one, FsOld, FALSE, FALSE),
      Scenario(CfgLinkInWorkspace, r_one, FsTools, FALSE, FALSE),
      Scenario(CfgTwoLocations, r_one, FsTools, FALSE, FALSE),
      Scenario(CfgSeed, r_one, FsToolsDenied, FALSE, FALSE) }

DirRepos == {None, r_one}
BaseRepos == DirRepos \cup {r_h_a}
DirBranches == {b_JIRA_1_a, b_jira_1_b}
TicketInfos == {[prefix |-> t_JIRA, number |-> <<"1">>], [prefix |-> t_JIRA, number |-> <<"1", "2">>]}
CheckoutBranches == {None, b_main, b_x, b_JIRA_1_a, b_JIRA_12_b}

-----------------------------------------------------------------------------
(* Workspace operations.                                                   *)

\* DirectoryManager.get_workspace_base
GetWorkspaceBase(rid) ==
    LET workspace_base == WorkspaceBase(config, repo_id, rid)
    IN  /\ IF CanMkdirP(fs, workspace_base)
           THEN /\ fs' = MkdirP(fs, workspace_base)
                /\ last' = Done([NoLast EXCEPT !.op = "get_workspace_base", !.rid = rid,
                                          !.path = workspace_base])
           ELSE /\ fs' = fs
                /\ last' = Done([NoLast EXCEPT !.op = "get_workspace_base", !.rid = rid,
                                          !.ok = FALSE, !.path = NonePath])
        /\ UNCHANGED <<config, repo_id, file, enum_desc, is_windows, git, overrides,
                       other, pc, seen>>

\* DirectoryManager.find_existing_ticket_dir
FindExistingTicketDirectory(prefix, number, rid) ==
    LET workspace_base == WorkspaceBase(config, repo_id, rid)
    IN  /\ IF CanMkdirP(fs, workspace_base)
           THEN /\ fs' = MkdirP(fs, workspace_base)
                /\ last' = Done([NoLast EXCEPT
                               !.op = "find_existing_ticket_dir", !.rid = rid,
                               !.prefix = prefix, !.number = number,
                               !.path = FindExistingTicketDir(fs', enum_desc, workspace_base,
                                                              prefix, number)])
           ELSE /\ fs' = fs
                /\ last' = Done([NoLast EXCEPT
                               !.op = "find_existing_ticket_dir", !.rid = rid,
                               !.prefix = prefix, !.number = number,
                               !.ok = FALSE, !.path = NonePath])
        /\ UNCHANGED <<config, repo_id, file, enum_desc, is_windows, git, overrides,
                       other, pc, seen>>

\* DirectoryManager.create_ticket_directory
CreateTicketDirectory(branch_name, ticket_info, rid) ==
    LET r == CreateTicketDirectoryResult(config, repo_id, fs, enum_desc, is_windows,
                                         branch_name, ticket_info, rid)
    IN  /\ fs' = r.fs
        /\ last' = Done([NoLast EXCEPT !.op = "create_ticket_directory", !.rid = rid,
                                  !.branch = branch_name, !.prefix = ticket_info.prefix,
                                  !.number = ticket_info.number,
                                  !.ok = r.ok, !.path = r.path])
        /\ UNCHANGED <<config, repo_id, file, enum_desc, is_windows, git, overrides,
                       other, pc, seen>>

\* TicketManager.process_checkout of a TicketManager built for repo_id;
\* branch_name is what get_current_branch returns, strict tells whether
\* Path.exists passes EACCES on.  An exception of a linker leaves
\* process_checkout: nothing is returned and the steps after it are not run.
ProcessCheckout(branch_name, strict) ==
    \E ticket_info \in {ExtractTicketInfo(branch_name)} :
    \E created \in {CreateTicketDirectoryResult(config, repo_id, fs, enum_desc, is_windows,
                                                branch_name, ticket_info, repo_id)} :
    \E tools \in {LinkTools(config, repo_id, created.fs, created.path, strict)} :
    \E links \in {UpdateCurrentTicketLink(config, repo_id, tools.fs, created.path, repo_id,
                                          strict)} :
    LET all_errors  == tools.errors \o links.errors
        done        == [NoLast EXCEPT !.op = "process_checkout", !.rid = repo_id,
                                      !.branch = branch_name]
    IN  /\ repo_id # None
        /\ IF ~Truthy(branch_name)
           THEN fs' = fs /\ last' = Done([done EXCEPT !.ok = FALSE, !.path = NonePath])
           ELSE IF IsStandardBranch(config, repo_id, branch_name)
           THEN fs' = fs /\ last' = Done([done EXCEPT !.path = NonePath])
           ELSE IF ~ticket_info.match
           THEN fs' = fs /\ last' = Done([done EXCEPT !.path = NonePath])
           ELSE IF ~created.ok
           THEN fs' = created.fs /\ last' = Done([done EXCEPT !.ok = FALSE, !.path = NonePath])
           ELSE IF tools.raised
           THEN /\ fs' = tools.fs
                /\ last' = Done([done EXCEPT !.ok = FALSE, !.path = created.path,
                                        !.errors = tools.errors, !.result = "raised"])
           ELSE IF links.raised
           THEN /\ fs' = links.fs
                /\ last' = Done([done EXCEPT !.ok = FALSE, !.path = created.path,
                                        !.errors = all_errors, !.result = "raised"])
           ELSE /\ fs' = links.fs
                /\ last' = Done([done EXCEPT !.ok = (all_errors = <<>>), !.path = created.path,
                                        !.errors = all_errors])
        /\ UNCHANGED <<config, repo_id, file, enum_desc, is_windows, git, overrides,
                       other, pc, seen>>

InitFrom(scenarios) ==
    /\ \E s \in scenarios :
        /\ config = s.config
        /\ file = SaveConfig(s.config)
        /\ repo_id = s.repo_id
        /\ fs = s.fs
        /\ enum_desc = s.enum_desc
        /\ is_windows = s.is_windows
    /\ git = NoGit
    /\ other = <<>>
    /\ pc = "idle"
    /\ overrides = <<>>
    /\ seen = <<>>
    /\ last = NoLast

\* The DirectoryManager alone.
InitD == InitFrom(DirScenarios)

NextD ==
    \/ \E rid \in BaseRepos : GetWorkspaceBase(rid)
    \/ \E ticket_info \in TicketInfos, rid \in DirRepos :
          FindExistingTicketDirectory(ticket_info.prefix, ticket_info.number, rid)
    \/ \E branch_name \in DirBranches, ticket_info \in TicketInfos, rid \in DirRepos :
          CreateTicketDirectory(branch_name, ticket_info, rid)

SpecD == InitD /\ [][NextD]_vars

\* A TicketManager: checkouts, and the DirectoryManager calls for its repository.
InitW == InitFrom(CheckoutScenarios)

NextW ==
    \/ GetWorkspaceBase(repo_id)
    \/ \E ticket_info \in TicketInfos :
          FindExistingTicketDirectory(ticket_info.prefix, ticket_info.number, repo_id)
    \/ \E ticket_info \in TicketInfos :
          CreateTicketDirectory(b_JIRA_1_a, ticket_info, repo_id)
    \/ \E branch_name \in CheckoutBranches, strict \in BOOLEAN :
          ProcessCheckout(branch_name, strict)

SpecW == InitW /\ [][NextW]_vars

-----------------------------------------------------------------------------
(* RepoIdentifier.  The strings it sees are over an alphabet without       *)
(* whitespace and without the characters "]", "?", "#" and ";".            *)

s_dot_git == <<".", "g", "i", "t">>
s_git_at == <<"g", "i", "t", "@">>
s_http == <<"h", "t", "t", "p", ":", "/", "/">>
s_https == <<"h", "t", "t", "p", "s", ":", "/", "/">>
s_local == <<"l", "o", "c", "a", "l", "/">>
s_unknown == <<"u", "n", "k", "n", "o", "w", "n">>
n_origin == <<"o", "r", "i", "g", "i", "n">>
n_upstream == <<"u", "p", "s", "t", "r", "e", "a", "m">>
n_backup == <<"b", "a", "c", "k", "u", "p">>

\* The exceptions a call lets through, as results no str equals.
ValueError == <<"ValueError">>
PermissionError == <<"PermissionError">>
Exceptions == {ValueError, PermissionError}

\* str.endswith(p)
EndsWith(s, p) == Len(s) >= Len(p) /\ SubSeq(s, Len(s) - Len(p) + 1, Len(s)) = p

\* urllib.parse.urlparse of a url that starts with http:// or https://: the
\* netloc runs from the two slashes to the next slash, the path is the rest;
\* a netloc with an opening bracket and no closing one is a ValueError.
urlparse(url) ==
    LET rest == DropFirst(url, FindFirst(url, {":"}, 1) + 2)
        i    == FindFirst(rest, {"/"}, 1)
        netloc == IF i = 0 THEN rest ELSE SubSeq(rest, 1, i - 1)
    IN  [netloc |-> netloc,
         path   |-> IF i = 0 THEN <<>> ELSE DropFirst(rest, i - 1),
         raised |-> FindFirst(netloc, {"["}, 1) # 0]

\* RepoIdentifier.normalize_url
normalize_url(url) ==
    IF url = <<>> THEN <<>>
    ELSE LET u == IF EndsWith(url, s_dot_git) THEN SubSeq(url, 1, Len(url) - 4) ELSE url
         IN  IF StartsWith(u, s_git_at)
             THEN LET r == DropFirst(u, 4)
                      i == FindFirst(r, {":"}, 1)
                  IN  IF i # 0 THEN SubSeq(r, 1, i - 1) \o <<"/">> \o DropFirst(r, i) ELSE r
             ELSE IF StartsWith(u, s_http) \/ StartsWith(u, s_https)
             THEN LET parsed == urlparse(u)
                      path == StripChars(parsed.path, {"/"})
                      i    == FindFirst(parsed.netloc, {":"}, 1)
                      host == IF i # 0 THEN SubSeq(parsed.netloc, 1, i - 1) ELSE parsed.netloc
                  IN  IF parsed.raised THEN ValueError
                      ELSE IF path # <<>> THEN host \o <<"/">> \o path ELSE host
             ELSE u

\* What running git does: "ok" runs it, "missing" is FileNotFoundError,
\* "denied" is the PermissionError of an executable that may not be run.
GitExe == {"ok", "missing", "denied"}

\* RepoIdentifier.get_remote_url: None when the remote is not there
\* (CalledProcessError) or git is missing.
get_remote_url(g, remote_name) ==
    IF g.git_dir = None THEN None
    ELSE IF g.exe = "denied" THEN PermissionError
    ELSE IF g.exe = "missing" THEN None
    ELSE LET found == SelectSeq(g.remotes, LAMBDA r : r.name = remote_name)
         IN  IF found = <<>> THEN None ELSE Strip(found[1].url)

\* RepoIdentifier.get_all_remotes: the (name, url) pairs as the dictionary
\* enumerates them, which is the order of the lines of git remote -v.
get_all_remotes(g) ==
    IF g.git_dir = None THEN [raised |-> FALSE, remotes |-> <<>>]
    ELSE IF g.exe = "denied" THEN [raised |-> TRUE, remotes |-> <<>>]
    ELSE IF g.exe = "missing" THEN [raised |-> FALSE, remotes |-> <<>>]
    ELSE [raised |-> FALSE, remotes |-> g.remotes]

\* hashlib.md5(path).hexdigest()[:8] of the repository roots of GitDirs.
Md5Prefix(repo_root) ==
    IF repo_root = ParsePath(<<"/", "r">>) THEN <<"8", "4", "a", "9", "1", "9", "2", "9">>
    ELSE IF repo_root = ParsePath(<<"/", "w", "/", "r">>) THEN <<"4", "1", "7", "b", "3", "1", "8", "f">>
    ELSE <<"6", "6", "6", "6", "c", "d", "7", "6">>

\* RepoIdentifier._get_local_identifier
get_local_identifier(g) ==
    IF g.git_dir = None THEN s_local \o s_unknown
    ELSE LET repo_root == Parent(ParsePath(g.git_dir))
             repo_name == IF repo_root = RootPath THEN <<>> ELSE Name(repo_root)
         IN  s_local \o repo_name \o <<"-">> \o Md5Prefix(repo_root)

\* The loop of get_repo_identifier over the remotes other than origin.
RECURSIVE FirstOtherRemote(_, _, _)
FirstOtherRemote(g, remotes, i) ==
    IF i > Len(remotes) THEN get_local_identifier(g)
    ELSE IF remotes[i].name = n_origin THEN FirstOtherRemote(g, remotes, i + 1)
    ELSE LET normalized == normalize_url(remotes[i].url)
         IN  IF normalized # <<>> THEN normalized
             ELSE FirstOtherRemote(g, remotes, i + 1)

\* RepoIdentifier.get_repo_identifier: the identifier, or the exception.
get_repo_identifier(g) ==
    LET origin_url == get_remote_url(g, n_origin)
        normalized == normalize_url(origin_url)
        all        == get_all_remotes(g)
    IN  IF origin_url \in Exceptions THEN origin_url
        ELSE IF Truthy(origin_url) /\ normalized # <<>> THEN normalized
        ELSE IF all.raised THEN PermissionError
        ELSE FirstOtherRemote(g, all.remotes, 1)

\* The URL forms of a repository at path p of host h.
HttpsForm(h, p) == s_https \o h \o <<"/">> \o p \o s_dot_git
HttpForm(h, p, port, suffix) == s_http \o h \o port \o <<"/">> \o p \o suffix
SshForm(user, h, p) == user \o <<"@">> \o h \o <<":">> \o p \o s_dot_git
BareForm(h, p) == h \o <<"/">> \o p

\* Paths of at most MaxSegs names.
MaxSegs == 2
PathNames == {<<"a">>, <<"b", ".", "g", "i", "t">>, <<"c", ".", "g", "i", "t", ".", "g", "i", "t">>}
RECURSIVE PathsOf(_)
PathsOf(n) ==
    IF n = 1 THEN PathNames
    ELSE PathsOf(n - 1) \cup {p \o <<"/">> \o s : p \in PathsOf(n - 1), s \in PathNames}
UrlPaths == PathsOf(MaxSegs)
UrlHosts == {<<"h">>, <<"h", ".", "x">>}
UrlUsers == {<<"g", "i", "t">>, <<"u">>}
UrlPorts == {<<>>, <<":", "8", "0">>}
UrlSuffixes == {<<>>, s_dot_git}

Urls ==
    UNION {{HttpsForm(h, p), SshForm(<<"g", "i", "t">>, h, p), SshForm(<<"u">>, h, p), BareForm(h, p)}
           \cup {HttpForm(h, p, port, suffix) : port \in UrlPorts, suffix \in UrlSuffixes} :
           h \in UrlHosts, p \in UrlPaths}

\* The URLs given to remotes: the forms, a path into the repository itself
\* and a URL with a mistyped host.
RemoteUrls ==
    {HttpsForm(<<"h">>, <<"a">>), SshForm(<<"g", "i", "t">>, <<"h">>, <<"b", ".", "g", "i", "t">>),
     s_dot_git, <<"h", "t", "t", "p", "s", ":", "/", "/", "[", "h", "/", "a">>}
RemoteNames == {n_origin, n_upstream, n_backup}
MaxRemotes == 2
GitDirs ==
    {None, <<"/", "r", "/", ".", "g", "i", "t">>,
     <<"/", "w", "/", "r", "/", ".", "g", "i", "t">>, <<"/", ".", "g", "i", "t">>}

\* git remote add: git lists remotes sorted by name.
RemoteAdd(name, url) ==
    /\ git.git_dir # None
    /\ Len(git.remotes) < MaxRemotes
    /\ \A i \in 1..Len(git.remotes) : git.remotes[i].name # name
    /\ LET before == SelectSeq(git.remotes, LAMBDA r : LexLess(r.name, name))
           after  == SelectSeq(git.remotes, LAMBDA r : LexLess(name, r.name))
       IN  git' = [git EXCEPT !.remotes = before \o <<[name |-> name, url |-> url]>> \o after]
    /\ UNCHANGED <<config, repo_id, file, fs, enum_desc, is_windows, overrides, last,
                   other, pc, seen>>

\* git remote remove
RemoteRemove(name) ==
    /\ \E i \in 1..Len(git.remotes) : git.remotes[i].name = name
    /\ git' = [git EXCEPT !.remotes = SelectSeq(git.remotes, LAMBDA r : r.name # name)]
    /\ UNCHANGED <<config, repo_id, file, fs, enum_desc, is_windows, overrides, last,
                   other, pc, seen>>

\* The git executable is installed, removed or loses its execute permission.
SetGitExe(exe) ==
    /\ exe # git.exe
    /\ git' = [git EXCEPT !.exe = exe]
    /\ UNCHANGED <<config, repo_id, file, fs, enum_desc, is_windows, overrides, last,
                   other, pc, seen>>

\* RepoIdentifier(git_dir).get_repo_identifier()
GetRepoIdentifier ==
    /\ \E result \in {get_repo_identifier(git)} :
         last' = Done([NoLast EXCEPT !.op = "get_repo_identifier", !.result = result,
                                   !.ok = result \notin Exceptions])
    /\ UNCHANGED <<config, repo_id, file, fs, enum_desc, is_windows, git, overrides,
                   other, pc, seen>>

\* RepoIdentifier().normalize_url(url)
NormalizeUrl(url) ==
    /\ \E result \in {normalize_url(url)} :
         last' = Done([NoLast EXCEPT !.op = "normalize_url", !.value = url,
                                   !.result = result, !.ok = result \notin Exceptions])
    /\ UNCHANGED <<config, repo_id, file, fs, enum_desc, is_windows, git, overrides,
                   other, pc, seen>>

InitR ==
    /\ file = SaveConfig(DefaultConfig)
    /\ config = LoadConfig(DefaultConfig, SaveConfig(DefaultConfig))
    /\ repo_id = None
    /\ fs = <<>>
    /\ enum_desc = FALSE
    /\ is_windows = FALSE
    /\ \E git_dir \in GitDirs : git = [NoGit EXCEPT !.git_dir = git_dir]
    /\ other = <<>>
    /\ pc = "idle"
    /\ overrides = <<>>
    /\ seen = <<>>
    /\ last = NoLast

NextR ==
    \/ \E name \in RemoteNames, url \in RemoteUrls : RemoteAdd(name, url)
    \/ \E name \in RemoteNames : RemoteRemove(name)
    \/ \E exe \in GitExe : SetGitExe(exe)
    \/ GetRepoIdentifier

SpecR == InitR /\ [][NextR]_vars

\* normalize_url alone, applied to the URL forms.
InitN ==
    /\ file = SaveConfig(DefaultConfig)
    /\ config = LoadConfig(DefaultConfig, SaveConfig(DefaultConfig))
    /\ repo_id = None
    /\ fs = <<>>
    /\ enum_desc = FALSE
    /\ is_windows = FALSE
    /\ git = NoGit
    /\ other = <<>>
    /\ pc = "idle"
    /\ overrides = <<>>
    /\ seen = <<>>
    /\ last = NoLast

NextN == \E url \in Urls : NormalizeUrl(url)

SpecN == InitN /\ [][NextN]_vars

-----------------------------------------------------------------------------
(* BranchAnalyzer with a configured grammar.  The pattern is compiled from  *)
(* four fragments; the fragments modelled are the ones of Fragments, over   *)
(* branch names without line breaks.                                        *)

f_upper_1_3 == <<"[", "A", "-", "Z", "]", "{", "1", ",", "3", "}">>
f_JIRA_or_ABC == <<"(", "J", "I", "R", "A", "|", "A", "B", "C", ")">>
f_dash == <<"-">>
t_ABC == <<"A", "B", "C">>

\* The language of a fragment used as a regular expression.
FragmentMatches(frag, s) ==
    IF frag = v_prefix_pattern THEN Len(s) \in 1..10 /\ Range(s) \subseteq Letters
    ELSE IF frag = f_upper_1_3 THEN Len(s) \in 1..3 /\ Range(s) \subseteq UpperSet
    ELSE IF frag = f_JIRA_or_ABC THEN s \in {t_JIRA, t_ABC}
    ELSE IF frag = v_separator THEN Len(s) = 1 /\ s[1] \in Separators
    ELSE IF frag = v_number_pattern THEN Len(s) >= 1 /\ Range(s) \subseteq Digits
    ELSE frag = v_description_pattern

\* The groups a fragment captures inside itself, in order: one for each
\* parenthesis of the fragment.
InnerGroups(frag, s) == IF frag = f_JIRA_or_ABC THEN <<s>> ELSE <<>>

\* The separator as the pattern uses it: a bracketed separator is a
\* character class, any other is escaped and stands for itself.
SeparatorMatches(separator, s) ==
    IF StartsWith(separator, <<"[">>) /\ EndsWith(separator, <<"]">>)
    THEN FragmentMatches(separator, s)
    ELSE s = separator

SeparatorGroups(separator, s) ==
    IF StartsWith(separator, <<"[">>) /\ EndsWith(separator, <<"]">>)
    THEN InnerGroups(separator, s)
    ELSE <<>>

\* The fragments BranchAnalyzer.__init__ reads for the instance's repository.
Grammar(cfg, inst) ==
    [prefix_pattern      |-> Get(cfg, inst, k_ticket_pattern, k_prefix_pattern, None, None),
     separator           |-> Get(cfg, inst, k_ticket_pattern, k_separator, None, None),
     number_pattern      |-> Get(cfg, inst, k_ticket_pattern, k_number_pattern, None, None),
     description_pattern |-> Get(cfg, inst, k_ticket_pattern, k_description_pattern, None, None)]

\* The ways to cut s into prefix, separator, number, separator, description
\* that the anchored pattern accepts: the ends of the first four parts.
Cuts(g, s) ==
    {c \in (0..Len(s)) \X (0..Len(s)) \X (0..Len(s)) \X (0..Len(s)) :
        /\ c[1] <= c[2] /\ c[2] <= c[3] /\ c[3] <= c[4]
        /\ FragmentMatches(g.prefix_pattern, SubSeq(s, 1, c[1]))
        /\ SeparatorMatches(g.separator, SubSeq(s, c[1] + 1, c[2]))
        /\ FragmentMatches(g.number_pattern, SubSeq(s, c[2] + 1, c[3]))
        /\ SeparatorMatches(g.separator, SubSeq(s, c[3] + 1, c[4]))
        /\ FragmentMatches(g.description_pattern, SubSeq(s, c[4] + 1, Len(s)))}

\* The cut the matcher finds first: every part as long as it can be, the
\* earlier part before the later.
FirstCut(cuts) ==
    CHOOSE c \in cuts : \A d \in cuts :
        \/ c[1] > d[1]
        \/ c[1] = d[1] /\ c[2] > d[2]
        \/ c[1] = d[1] /\ c[2] = d[2] /\ c[3] > d[3]
        \/ c[1] = d[1] /\ c[2] = d[2] /\ c[3] = d[3] /\ c[4] >= d[4]

\* match.group(n) for n = 1, 2, ...: the five parts and, after each, the
\* groups captured inside it.
MatchGroups(g, s, c) ==
    LET prefix == SubSeq(s, 1, c[1])
        sep1   == SubSeq(s, c[1] + 1, c[2])
        number == SubSeq(s, c[2] + 1, c[3])
        sep2   == SubSeq(s, c[3] + 1, c[4])
        descr  == SubSeq(s, c[4] + 1, Len(s))
    IN  <<prefix>> \o InnerGroups(g.prefix_pattern, prefix)
        \o <<sep1>> \o SeparatorGroups(g.separator, sep1)
        \o <<number>> \o InnerGroups(g.number_pattern, number)
        \o <<sep2>> \o SeparatorGroups(g.separator, sep2)
        \o <<descr>> \o InnerGroups(g.description_pattern, descr)

\* BranchAnalyzer(config).extract_ticket_info(branch_name)
extract_ticket_info(cfg, inst, branch_name) ==
    LET g      == Grammar(cfg, inst)
        cuts   == Cuts(g, branch_name)
        groups == MatchGroups(g, branch_name, FirstCut(cuts))
    IN  IF cuts = {} THEN NoTicket
        ELSE [match |-> TRUE, prefix |-> groups[1], number |-> groups[3],
              description |-> groups[5]]

PrefixFragments == {v_prefix_pattern, f_upper_1_3, f_JIRA_or_ABC}
SeparatorFragments == {v_separator, f_dash}
GrammarBranches ==
    {<<"J", "I", "R", "A", "-", "1", "2", "3", "-", "l", "o", "g", "i", "n", "-", "f", "i", "x">>, <<"1", "2", "3", "-", "f", "e", "a", "t", "u", "r", "e">>, b_JIRA_1_a, b_jira_1_b, b_main,
     <<"A", "B", "C", "-", "1", "2", "-">>, <<"a", "b", "_", "1", "-", "2", "_", "c">>, <<"J", "I", "R", "A", "-", "1">>, <<"A", "B", "C", "D", "-", "1", "-", "x">>}

\* BranchAnalyzer(config).extract_ticket_info(branch_name)
ExtractTicket(branch_name) ==
    /\ \E t \in {extract_ticket_info(config, repo_id, branch_name)} :
         last' = Done([NoLast EXCEPT !.op = "extract_ticket_info", !.branch = branch_name,
                                   !.ok = t.match, !.prefix = t.prefix,
                                   !.number = t.number, !.result = t.description])
    /\ UNCHANGED <<config, repo_id, file, fs, enum_desc, is_windows, git, overrides,
                   other, pc, seen>>

NextB ==
    \/ \E value \in PrefixFragments : Set(k_ticket_pattern, k_prefix_pattern, value, None, TRUE)
    \/ \E value \in SeparatorFragments : Set(k_ticket_pattern, k_separator, value, None, TRUE)
    \/ \E branch_name \in GrammarBranches : ExtractTicket(branch_name)

SpecB == InitN /\ [][NextB]_vars

-----------------------------------------------------------------------------
(* DirectoryManager with long names and deep workspace roots.              *)

\* c * n
Rep(c, n) == [i \in 1..n |-> c]

\* len(str(p)) of an absolute path
RECURSIVE PathLen(_)
PathLen(p) ==
    IF Len(p) <= 1 THEN 1
    ELSE IF Len(p) = 2 THEN 1 + Len(p[2])
    ELSE PathLen(Parent(p)) + 1 + Len(Name(p))

\* Lengths of the configured workspace base, as a string.
BaseLengths == {21, 100, 101, 150}
LongBase(n) == <<"/">> \o Rep("w", n - 1)

\* Names given to sanitize_directory_name.
SanitizeNames ==
    {Rep("B", n) : n \in {49, 110, 111, 120}}
    \cup {Rep("a", 109) \o <<".", "b">>, Rep("a", 109) \o <<" ", "b">>}
    \cup {<<"t", "e", "s", "t", "<", ">", ":", "\"", "/", "\\", "|", "?", "*", "n", "a", "m", "e">>, <<".", ".", " ", "x", " ", ".", ".">>, <<"C", "O", "N">>, <<"p", "r", "n">>, <<" ", ".", " ">>, b_jira_1_b}

\* Branches of ticket JIRA-1 with short and long descriptions.
LongBranches == {b_JIRA_1_a \o Rep("b", n) : n \in {0, 41, 102, 120}}

PathScenarios ==
    {Scenario(ConfigAfterSet(CfgSeed, k_paths, k_workspace_base, LongBase(n), None, TRUE),
              None, FsBase, FALSE, windows) : n \in BaseLengths, windows \in BOOLEAN}

\* DirectoryManager(config).sanitize_directory_name(name)
SanitizeDirectoryNameCall(name) ==
    /\ last' = Done([NoLast EXCEPT !.op = "sanitize_directory_name", !.value = name,
                              !.result = SanitizeDirectoryName(name, is_windows)])
    /\ UNCHANGED <<config, repo_id, file, fs, enum_desc, is_windows, git, overrides,
                   other, pc, seen>>

InitP == InitFrom(PathScenarios)

NextP ==
    \/ \E name \in SanitizeNames : SanitizeDirectoryNameCall(name)
    \/ \E branch_name \in LongBranches :
          CreateTicketDirectory(branch_name, [prefix |-> t_JIRA, number |-> <<"1">>], None)

SpecP == InitP /\ [][NextP]_vars

-----------------------------------------------------------------------------
(* CurrentTicketLinker alone, with something in the way at the link name.  *)

TicketDirA == Join(ParsePath(ExpandUser(v_tickets_h_a)), b_JIRA_1_a)
TicketDirB == Join(ParsePath(ExpandUser(v_tickets_h_a)), b_JIRA_12_b)
LinkerTicketDirs == {TicketDirA, TicketDirB}

\* The tools library and the two ticket directories.
FsLinker ==
    FsTools
    @@ ParsePath(ExpandUser(v_tickets)) :> Dir
    @@ ParsePath(ExpandUser(v_tickets_h_a)) :> Dir
    @@ TicketDirA :> Dir
    @@ TicketDirB :> Dir

\* The current-ticket link goes to ~/Downloads and to ~/tickets.
CfgTwoGoodLocations ==
    ConfigAfterSet(CfgSeed, k_links, k_current_ticket_link_locations,
                   v_Downloads \o <<",", " ">> \o v_tickets, None, TRUE)

LinkerScenarios ==
    { Scenario(CfgSeed, None, FsLinker, FALSE, FALSE),
      Scenario(CfgTwoGoodLocations, None, FsLinker, FALSE, FALSE),
      Scenario(CfgLinkInWorkspace, None, FsLinker, FALSE, FALSE),
      Scenario(CfgTwoLocations, None, FsLinker, FALSE, FALSE) }

\* What can be in the way: a plain file, a directory with a file in it, a
\* symlink to a ticket directory, a symlink to nothing.
InTheWay == {"file", "dir", "link", "broken"}

\* Somebody puts an entry at the link name of the i-th link location.
PlaceAtLinkName(i, what) ==
    LET location == GetLinkLocations(config, repo_id, None)[i]
        target   == Join(location, GetLinkFilename(config, repo_id, None))
        f1       == RmTree(fs, target)
        r        == LReal(f1, target)
    IN  /\ i \in DOMAIN GetLinkLocations(config, repo_id, None)
        /\ IsDir(fs, location)
        /\ r # ELoop
        /\ fs' = IF what = "file" THEN r :> File @@ f1
                 ELSE IF what = "dir" THEN r :> Dir @@ Append(r, b_x) :> File @@ f1
                 ELSE IF what = "link" THEN r :> Link(TicketDirB) @@ f1
                 ELSE r :> Link(Join(HomePath, b_x)) @@ f1
        /\ UNCHANGED <<config, repo_id, file, enum_desc, is_windows, git, overrides, last,
                       other, pc, seen>>

\* CurrentTicketLinker(config).update_current_ticket_link(ticket_dir)
UpdateCurrentTicketLinkCall(ticket_dir, strict) ==
    /\ \E r \in {UpdateCurrentTicketLink(config, repo_id, fs, ticket_dir, None, strict)} :
        /\ fs' = r.fs
        /\ last' = Done([NoLast EXCEPT !.op = "update_current_ticket_link",
                                  !.path = ticket_dir, !.errors = r.errors,
                                  !.ok = (r.errors = <<>> /\ ~r.raised),
                                  !.result = IF r.raised THEN "raised" ELSE <<>>])
    /\ UNCHANGED <<config, repo_id, file, enum_desc, is_windows, git, overrides, other, pc, seen>>

InitK == InitFrom(LinkerScenarios)

NextK ==
    \/ \E i \in 1..2, what \in InTheWay : PlaceAtLinkName(i, what)
    \/ \E ticket_dir \in LinkerTicketDirs, strict \in BOOLEAN :
          UpdateCurrentTicketLinkCall(ticket_dir, strict)

SpecK == InitK /\ [][NextK]_vars

-----------------------------------------------------------------------------
(* find_existing_ticket_dir on a workspace root that fills up.             *)

\* The workspace root of r_one under CfgOverride.
TicketRoot == ParsePath(v_c)

FindScenarios ==
    {Scenario(CfgOverride, None, TicketRoot :> Dir @@ FsBase, desc, FALSE) : desc \in BOOLEAN}

\* Names an entry of the root can have: two of ticket 1, one of ticket 12,
\* one of another prefix.
EntryNames == {d_JIRA_1_old, d_jira_1, d_JIRA_12_x, d_JIRAX_1}

\* Somebody makes a directory or a file in the workspace root.
PutEntry(name, entry) ==
    /\ Join(TicketRoot, name) \notin DOMAIN fs
    /\ fs' = Join(TicketRoot, name) :> entry @@ fs
    /\ UNCHANGED <<config, repo_id, file, enum_desc, is_windows, git, overrides, last,
                   other, pc, seen>>

InitE == InitFrom(FindScenarios)

NextE ==
    \/ \E name \in EntryNames, entry \in {Dir, File} : PutEntry(name, entry)
    \/ \E ticket_info \in TicketInfos :
          FindExistingTicketDirectory(ticket_info.prefix, ticket_info.number, r_one)

SpecE == InitE /\ [][NextE]_vars

-----------------------------------------------------------------------------
(* Properties of the configuration store.                                  *)

k_nonexistent == <<"n", "o", "n", "e">>
GetSections == {k_paths, k_links, k_nonexistent}
GetKeys == {k_workspace_base, k_WORKSPACE_BASE, k_tools_library_path, k_nonexistent}
GetRepos == OptRepos \cup {<<>>}

\* The values stored for an option of a section: one value, or none.
Stored(cfg, s, o) ==
    IF s \in DOMAIN cfg /\ Lower(o) \in DOMAIN cfg[s] THEN {cfg[s][Lower(o)]} ELSE {}

C4_ReadAfterWrite ==
    (last.op = "set" /\ (last.dflt \/ Truthy(last.rid))) =>
        LET rid  == IF last.dflt THEN None ELSE last.rid
            inst == IF last.dflt THEN None ELSE repo_id
        IN  /\ Get(config, inst, last.section, last.key, None, rid) = last.value
            /\ Get(NewConfig(file), inst, last.section, last.key, None, rid) = last.value

\* C5: after set(section, key, value) with neither repo_id nor default=True,
\* get(section, key) returns the value, in the same instance and in a new one.
C5_PlainSetVisible ==
    (last.op = "set" /\ ~last.dflt /\ ~Truthy(last.rid)) =>
        /\ Get(config, repo_id, last.section, last.key, None, None) = last.value
        /\ Get(NewConfig(file), repo_id, last.section, last.key, None, None) = last.value

\* Every option of a and b other than the target is stored alike in both.
SameButTarget(a, b, t) ==
    \A s \in DOMAIN a \cup DOMAIN b :
        IF s # t.section
        THEN s \in DOMAIN a /\ s \in DOMAIN b /\ a[s] = b[s]
        ELSE \A o \in ((IF s \in DOMAIN a THEN DOMAIN a[s] ELSE {}) \cup DOMAIN b[s])
                          \ {Lower(t.key)} :
                Stored(a, s, o) # {} /\ Stored(a, s, o) = Stored(b, s, o)

\* C6: a set leaves every option other than the one it writes, and every
\* other section, as it was: in the parser state and in the file as a new
\* ConfigManager loads it.
C6_SetFrame ==
    [][last'.op = "set" =>
         LET t == SetTarget(last'.section, last'.key, last'.rid, last'.dflt)
         IN  /\ SameButTarget(config, config', t)
             /\ SameButTarget(NewConfig(file), NewConfig(file'), t)]_vars

C6_Witness ==
    /\ last.op = "set"
    /\ ListConfiguredRepos(config) = Repos
    /\ k_paths \in DOMAIN config
    /\ NewConfig(file) = config

\* C7: get(category, key, repo_id=r) returns the override last set for
\* (r, category, key) since the last remove_repo_config(r), otherwise the
\* current default, otherwise the fallback.
C7_LatestOverride ==
    \A r \in Repos, section \in SetSections, key \in SetKeys, fallback \in Fallbacks :
        LET k   == <<r, section, optionxform(key)>>
            dfl == Stored(config, p_default \o section, key)
            res == Get(config, repo_id, section, key, fallback, r)
        IN  IF k \in DOMAIN overrides THEN res = overrides[k]
            ELSE IF dfl # {} THEN {res} = dfl
            ELSE res = (IF Truthy(fallback) THEN fallback ELSE <<>>)

\* C8: an override stored for r changes no lookup whose effective repository
\* is another one or none: the lookup returns what it returns without the
\* section of r.
C8_NoForeignShadow ==
    \A r \in Repos, section \in GetSections, key \in GetKeys, inst \in OptRepos,
       rid \in GetRepos, fallback \in Fallbacks :
        LET eff == IF rid # None THEN rid ELSE inst
        IN  eff # r =>
                Get(config, inst, section, key, fallback, rid)
                    = Get(remove_section(config, p_repo \o r), inst, section, key, fallback, rid)

C8_Witness ==
    /\ Stored(config, p_repo \o r_one, k_paths \o <<".">> \o k_workspace_base) = {v_c}
    /\ ~has_section(config, p_repo \o r_two)
    /\ Get(config, None, k_paths, k_workspace_base, None, r_two) = v_tickets
    /\ Get(config, None, k_paths, k_workspace_base, None, None) = v_tickets
    /\ Get(config, r_one, k_paths, k_workspace_base, None, <<>>) = v_tickets

-----------------------------------------------------------------------------
(* Properties of the workspace manager.                                    *)

\* C2: for a repository with an explicit paths.workspace_base override,
\* get_workspace_base(repo_id) is exactly the override path, whatever the
\* ConfigManager the DirectoryManager is built on.
C2_OverrideUsedExactly ==
    LET ovr == IF Truthy(last.rid)
               THEN Stored(config, p_repo \o last.rid, k_paths \o <<".">> \o k_workspace_base)
               ELSE {}
    IN  (last.op = "get_workspace_base" /\ last.ok /\ ovr # {}) =>
            {last.path} = {ParsePath(ExpandUser(v)) : v \in ovr}

\* The directories below the directory d.
DirsUnder(f, d) ==
    LET r == Real(f, d) IN {q \in DOMAIN f : IsUnder(q, r) /\ q # r /\ f[q].kind = "dir"}

\* C3: create_ticket_directory called again with the same branch name,
\* ticket reference and repository id returns the same directory and
\* creates no further directory under the workspace root.
C3_CreateIdempotent ==
    [][(/\ last.op = "create_ticket_directory" /\ last.ok
        /\ last'.op = "create_ticket_directory"
        /\ Args(last') = Args(last))
       => LET root == WorkspaceBase(config, repo_id, last.rid)
          IN  /\ last'.ok
              /\ last'.path = last.path
              /\ DirsUnder(fs', root) = DirsUnder(fs, root)]_vars

C3_Witness ==
    /\ last.op = "create_ticket_directory" /\ last.again /\ last.ok
    /\ last.branch = b_jira_1_b /\ last.number = <<"1", "2">>
    /\ Name(last.path) = SanitizeDirectoryName(b_jira_1_b, is_windows)
    /\ IsDir(fs, last.path)

\* A directory name that stands for the ticket: prefix, separator, number,
\* alone or followed by a separator and a description; case ignored.
NamesTicket(dir_name, prefix, number) ==
    \E s1 \in Separators :
        LET head == Lower(prefix) \o <<s1>> \o Lower(number)
        IN  \/ Lower(dir_name) = head
            \/ \E s2 \in Separators : StartsWith(Lower(dir_name), head \o <<s2>>)

\* The directories of the workspace root that stand for the ticket.
TicketDirsIn(f, root, prefix, number) ==
    {Join(root, n) : n \in {m \in Listing(f, root) :
                               IsDir(f, Join(root, m)) /\ NamesTicket(m, prefix, number)}}

\* C9: when the workspace root holds a directory for the ticket's prefix and
\* number, create_ticket_directory returns such a directory and changes
\* nothing: no rename, no new directory.
C9_ReuseExisting ==
    [][LET root == WorkspaceBase(config, repo_id, last'.rid)
           held == TicketDirsIn(fs, root, last'.prefix, last'.number)
       IN  (last'.op = "create_ticket_directory" /\ held # {})
           => (last'.ok /\ last'.path \in held /\ fs' = fs)]_vars

C9_Witness ==
    /\ last.op = "create_ticket_directory" /\ last.ok
    /\ last.branch = b_JIRA_1_a
    /\ Name(last.path) = d_jira_1
    /\ Listing(fs, Parent(last.path)) = {d_jira_1}

\* The workspace roots of the live configuration.
WorkspaceRoots == {WorkspaceBase(config, repo_id, rid) : rid \in DirRepos \cup {repo_id}}

\* C10: no ticket directory under a workspace root is ever deleted or
\* renamed by the workspace operations and process_checkout.
C10_TicketDirsOnlyGrow ==
    [][\A p \in DOMAIN fs :
          (fs[p].kind = "dir" /\ Parent(p) \in WorkspaceRoots)
          => (p \in DOMAIN fs' /\ fs'[p].kind = "dir")]_vars

\* The override of paths.workspace_base stored for the repository, if any.
WorkspaceOverride(cfg, rid) ==
    IF Truthy(rid) THEN Stored(cfg, p_repo \o rid, k_paths \o <<".">> \o k_workspace_base)
    ELSE {}

\* The default workspace base: the stored default, expanded.
DefaultWorkspaceBase(cfg) ==
    LET dfl == Stored(cfg, p_default \o k_paths, k_workspace_base)
    IN  IF dfl = {} THEN ParsePath(ExpandUser(v_tickets))
        ELSE CHOOSE p \in {ParsePath(ExpandUser(v)) : v \in dfl} : TRUE

\* C11: for a repository id without workspace override get_workspace_base
\* returns the default workspace base joined with the sanitized id, and with
\* no repository in effect the default workspace base itself; the directory
\* exists afterwards and a repeated call returns the same path.
C11_DefaultScoped ==
    [][(/\ last'.op = "get_workspace_base" /\ last'.ok
        /\ WorkspaceOverride(config, last'.rid) = {}
        /\ Truthy(last'.rid) \/ WorkspaceOverride(config, repo_id) = {})
       => /\ last'.path = IF Truthy(last'.rid)
                          THEN Join(DefaultWorkspaceBase(config), SanitizeRepoName(last'.rid))
                          ELSE DefaultWorkspaceBase(config)
          /\ IsDir(fs', last'.path)
          /\ (last.op = "get_workspace_base" /\ last.ok /\ last.rid = last'.rid)
             => last'.path = last.path]_vars

\* C12: two distinct repository ids without workspace override get two
\* distinct directories from get_workspace_base.
C12_DistinctRoots ==
    [][(/\ last.op = "get_workspace_base" /\ last.ok
        /\ last'.op = "get_workspace_base" /\ last'.ok
        /\ Truthy(last.rid) /\ Truthy(last'.rid) /\ last.rid # last'.rid
        /\ WorkspaceOverride(config, last.rid) = {}
        /\ WorkspaceOverride(config, last'.rid) = {})
       => last'.path # last.path]_vars

\* C13: section repo:<id> exists exactly when an override was set for id
\* since the last remove_repo_config(id), before and after every operation,
\* and a lookup changes neither the parser state nor the file.
C13_RepoSectionIffOverride ==
    [][/\ \A r \in Repos :
            /\ has_section(config, p_repo \o r) <=> (\E k \in DOMAIN overrides : k[1] = r)
            /\ has_section(config', p_repo \o r) <=> (\E k \in DOMAIN overrides' : k[1] = r)
       /\ last'.op \in LookupOps => (config' = config /\ file' = file)]_vars

C13_Witness ==
    /\ last.op = "repo_is_configured" /\ last.rid = r_two /\ last.result = FALSE
    /\ has_section(config, p_repo \o r_one)
    /\ ~has_section(config, p_repo \o r_two)
    /\ \E k \in DOMAIN overrides : k[1] = r_one
    /\ Stored(config, p_default \o k_paths, k_workspace_base) = {v_c}

\* C14: remove_repo_config(id) without a section of id returns False and
\* changes neither the parser state nor the file; with a section it returns
\* True, id is no longer listed nor configured, and every other section is
\* as before, in the parser state and in the file.
C14_RemoveRepoConfig ==
    [][last'.op = "remove" =>
         LET repo_section == p_repo \o last'.rid
             others(cfg)  == [s \in DOMAIN cfg \ {repo_section} |-> cfg[s]]
         IN  IF has_section(config, repo_section)
             THEN /\ last'.ok
                  /\ last'.rid \notin ListConfiguredRepos(config')
                  /\ ~RepoIsConfigured(config', last'.rid)
                  /\ last'.rid \notin ListConfiguredRepos(NewConfig(file'))
                  /\ others(config') = others(config)
                  /\ others(NewConfig(file')) = others(NewConfig(file))
             ELSE ~last'.ok /\ config' = config /\ file' = file]_vars

C14_Witness ==
    /\ last.op = "remove" /\ last.rid = r_one /\ last.ok
    /\ ListConfiguredRepos(config) = {r_two}
    /\ NewConfig(file) = config

\* The branches the configuration of the TicketManager lists as standard.
StandardBranches == Range(GetList(config, repo_id, k_branches, k_standard_branches, None))

LinksTo(f, p, t) == IsSymlink(f, p) /\ f[LReal(f, p)].target = t

\* Some collected error names the path.
Reported(errors, what) == \E i \in 1..Len(errors) : errors[i].what = what

\* C16: once process_checkout has its ticket directory, an error on one
\* tool or one link location stops nothing: the call returns, every tool is
\* linked or reported, every link location holds the link or is reported,
\* and the call fails exactly when an error was collected.
C16_ErrorsAggregated ==
    [][LET b       == last'.branch
           created == CreateTicketDirectoryResult(config, repo_id, fs, enum_desc, is_windows,
                                                  b, ExtractTicketInfo(b), repo_id)
           lib     == GetPath(config, repo_id, k_paths, k_tools_library_path, None, None)
           tools   == GetList(config, repo_id, k_links, k_tools_to_link, None)
           locs    == GetLinkLocations(config, repo_id, repo_id)
           name    == GetLinkFilename(config, repo_id, repo_id)
       IN  (/\ last'.op = "process_checkout" /\ Truthy(b)
            /\ b \notin StandardBranches /\ ExtractTicketInfo(b).match /\ created.ok)
           => /\ last'.result # "raised"
              /\ last'.path = created.path
              /\ \A i \in 1..Len(tools) :
                    \/ LinksTo(fs', Join(last'.path, tools[i]), Join(lib, tools[i]))
                    \/ Reported(last'.errors, Join(last'.path, tools[i]))
                    \/ Reported(last'.errors, Join(lib, tools[i]))
                    \/ Reported(last'.errors, lib)
              /\ \A i \in 1..Len(locs) :
                    \/ LinksTo(fs', Join(locs[i], name), last'.path)
                    \/ Reported(last'.errors, Join(locs[i], name))
                    \/ Reported(last'.errors, locs[i])
              /\ last'.ok <=> last'.errors = <<>>]_vars

\* C17: when writing the file fails during set or remove_repo_config, the
\* parser state and the content of the file are as before the call.
C17_FailedSaveChangesNothing ==
    [][(last'.op \in {"set", "remove"} /\ last'.result = "raised")
       => (config' = config /\ file' = file)]_vars

-----------------------------------------------------------------------------
(* Properties of RepoIdentifier.                                           *)

HexDigits == {"0", "1", "2", "3", "4", "5", "6", "7", "8", "9", "a", "b", "c", "d", "e", "f"}

\* id is local/<dirname>-<8 hex digits> for the directory that holds git_dir.
IsLocalIdentity(id, git_dir) ==
    LET root == Parent(ParsePath(git_dir))
        head == s_local \o (IF root = RootPath THEN <<>> ELSE Name(root)) \o <<"-">>
    IN  /\ StartsWith(id, head)
        /\ Len(id) = Len(head) + 8
        /\ \A i \in Len(head) + 1..Len(id) : id[i] \in HexDigits

\* The remotes git can be asked about: none when there is no git directory
\* or git cannot be run.
KnownRemotes(g) == IF g.git_dir # None /\ g.exe = "ok" THEN g.remotes ELSE <<>>

\* The identifiers the remotes selected by keep yield, empty ones left out.
Identifiers(g, keep(_)) ==
    SelectSeq([i \in 1..Len(KnownRemotes(g)) |->
                  IF keep(KnownRemotes(g)[i].name)
                  THEN normalize_url(KnownRemotes(g)[i].url) ELSE <<>>],
              LAMBDA id : id # <<>>)

\* C18: get_repo_identifier never raises and returns the identifier of
\* origin when origin yields one, otherwise that of the first other remote
\* in enumeration order, otherwise local/<dirname>-<8 hex digits>, and
\* local/unknown without a git directory; a git that fails or is missing
\* counts as no remote.
C18_IdentifierChain ==
    [][last' # last =>
        /\ last'.ok
        /\ LET origin == Identifiers(git, LAMBDA n : n = n_origin)
               others == Identifiers(git, LAMBDA n : n # n_origin)
           IN  IF origin # <<>> THEN last'.result = origin[1]
               ELSE IF others # <<>> THEN last'.result = others[1]
               ELSE IF git.git_dir # None THEN IsLocalIdentity(last'.result, git.git_dir)
               ELSE last'.result = s_local \o s_unknown]_vars

\* The URL forms of the repository at path p of host h.
FormsOf(h, p) ==
    {HttpsForm(h, p)}
    \cup {HttpForm(h, p, port, suffix) : port \in UrlPorts, suffix \in UrlSuffixes}
    \cup {SshForm(user, h, p) : user \in UrlUsers}

\* C19: for every host h and path p, https://h/p.git, http://h/p with or
\* without a port and the .git suffix, and user@h:p.git all normalize to h/p.
C19_FormsAgree ==
    last.op = "normalize_url"
    => \A h \in UrlHosts, p \in UrlPaths :
         last.value \in FormsOf(h, p) => last.result = BareForm(h, p)

\* C20: normalize_url returns a bare host/path identifier as it is, and
\* normalizing the result again changes nothing.
C20_BareFixed ==
    (last.op = "normalize_url" /\ \E h \in UrlHosts, p \in UrlPaths : last.value = BareForm(h, p))
    => /\ last.result = last.value
       /\ normalize_url(last.result) = last.result

-----------------------------------------------------------------------------
(* Properties of BranchAnalyzer.                                           *)

\* C21: extract_ticket_info returns a ticket exactly when the whole branch
\* name is prefix, separator, number, separator, description of the
\* configured grammar, and then its prefix, number and description are the
\* parts of the name that matched those fragments; under the seeded grammar
\* JIRA-123-login-fix gives JIRA, 123, login-fix and 123-feature gives None.
C21_TicketIffGrammar ==
    last.op = "extract_ticket_info"
    => LET g == Grammar(config, repo_id)
           s == last.branch
       IN  /\ last.ok <=> Cuts(g, s) # {}
           /\ last.ok => \E c \in Cuts(g, s) :
                           /\ last.prefix = SubSeq(s, 1, c[1])
                           /\ last.number = SubSeq(s, c[2] + 1, c[3])
                           /\ last.result = SubSeq(s, c[4] + 1, Len(s))
           /\ (g.prefix_pattern = v_prefix_pattern /\ g.separator = v_separator)
              => /\ s = <<"J", "I", "R", "A", "-", "1", "2", "3", "-", "l", "o", "g", "i", "n", "-", "f", "i", "x">>
                    => /\ last.ok /\ last.prefix = t_JIRA /\ last.number = <<"1", "2", "3">>
                       /\ last.result = <<"l", "o", "g", "i", "n", "-", "f", "i", "x">>
                 /\ s = <<"1", "2", "3", "-", "f", "e", "a", "t", "u", "r", "e">> => ~ last.ok

-----------------------------------------------------------------------------
(* Properties of the directory names.                                      *)

\* C22: on Windows the sanitized name is at most
\* max(50, 260 - len(workspace base path) - 50) characters long.
C22_WindowsNameCap ==
    (last.op = "sanitize_directory_name" /\ is_windows)
    => Len(last.result)
         <= Max(50, 260 - PathLen(WorkspaceBase(config, repo_id, None)) - 50)

\* C23: on Windows the full path of a ticket directory that
\* create_ticket_directory builds is shorter than 260 characters.
C23_WindowsPathUnder260 ==
    (last.op = "create_ticket_directory" /\ last.ok /\ is_windows)
    => PathLen(last.path) < 260

\* C24: on every platform the sanitized name neither begins nor ends with a
\* dot or a space and has none of the characters < > : " / \ | ? * in it.
C24_SafeName ==
    last.op = "sanitize_directory_name"
    => /\ Range(last.result) \cap InvalidChars = {}
       /\ last.result # <<>>
          => /\ last.result[1] \notin {".", " "}
             /\ last.result[Len(last.result)] \notin {".", " "}

-----------------------------------------------------------------------------
(* Properties of the sections.                                             *)

\* The option name is category.key.
DotQualified(k) == FindFirst(k, {"."}, 1) \notin {0, 1, Len(k)}

InFamilies(cfg, s) ==
    \/ /\ StartsWith(s, p_default) /\ Len(s) > Len(p_default)
       /\ \A k \in DOMAIN cfg[s] : FindFirst(k, {"."}, 1) = 0
    \/ /\ StartsWith(s, p_repo) /\ Len(s) > Len(p_repo)
       /\ \A k \in DOMAIN cfg[s] : DotQualified(k)

\* C25: after any sequence of set calls on the seeded configuration every
\* section is default.<category> with bare keys or repo:<identifier> with
\* keys <category>.<key>.
C25_TwoSectionFamilies == \A s \in DOMAIN config : InFamilies(config, s)

-----------------------------------------------------------------------------
(* Properties of repeated checkouts and of the current-ticket link.        *)

ConfiguredLinkName ==
    LET filename == Get(config, repo_id, k_links, k_current_ticket_link_filename, None, None)
    IN  IF filename # <<>> THEN filename ELSE v_CurrentTicket

\* C27: after an update_current_ticket_link that returns no errors for a
\* ticket directory, in every configured link location the entry with the
\* configured link name is a symlink that leads to the ticket directory of
\* that call, whatever was there before.
C27_LinkFollowsLastCall ==
    [][(/\ last'.op = "update_current_ticket_link" /\ last'.ok /\ last' # last
        /\ IsDir(fs, last'.path))
       => \A i \in DOMAIN GetLinkLocations(config, repo_id, None) :
            /\ LinksTo(fs', Join(GetLinkLocations(config, repo_id, None)[i],
                                 ConfiguredLinkName), last'.path)
            /\ IsDir(fs', last'.path)]_vars

\* C28: a process that loads the configuration file while set or
\* remove_repo_config is being executed reads the complete content from
\* before the write or the complete content after it.
C28_NoTornRead ==
    [][(last'.op = "other_load" /\ pc = "opened")
       => other' \in {NewConfig(seen), NewConfig(SaveConfig(config))}]_vars

\* The file holds the value of the set call recorded in l.
FileHolds(f, l) ==
    LET t == SetTarget(l.section, l.key, l.rid, l.dflt)
    IN  t.section \in DOMAIN f /\ WriteLine(optionxform(t.key), l.value) \in f[t.section]

\* The parser state cfg, with the set call recorded in l applied to it and
\* saved, gives the file f: cfg was loaded before that call and not since.
LoadedBefore(cfg, l, f) ==
    SaveConfig(SetMem(cfg, l.section, l.key, l.value, l.rid, l.dflt)) = f

\* C30: when two instances loaded from the same file each set a different
\* key, in either order and with no reload in between, the file afterwards
\* holds both values.
C30_BothValuesKept ==
    [][(/\ {last.op, last'.op} = {"set", "other_set"}
        /\ SetTarget(last.section, last.key, last.rid, last.dflt)
             # SetTarget(last'.section, last'.key, last'.rid, last'.dflt)
        /\ (last'.op = "other_set") => LoadedBefore(other, last, file)
        /\ (last'.op = "set") => LoadedBefore(config, last, file))
       => FileHolds(file', last) /\ FileHolds(file', last')]_vars

\* C29: find_existing_ticket_dir returns the first, in enumeration order, of
\* the directories of the workspace root that stand for the prefix and the
\* number, and None when there is none; never a file, another prefix, or a
\* number that only starts with the given one.  (A step that leaves last
\* alone and changes the filesystem is not a call.)
C29_FirstTicketDirOrNone ==
    [][(last'.op = "find_existing_ticket_dir" /\ last'.ok /\ (last' # last \/ fs' = fs))
       => LET root == WorkspaceBase(config, repo_id, last'.rid)
              held == TicketDirsIn(fs', root, last'.prefix, last'.number)
          IN  IF held = {} THEN last'.path = NonePath
              ELSE /\ last'.path \in held
                   /\ \A q \in held \ {last'.path} :
                        EnumBefore(enum_desc, Name(last'.path), Name(q))]_vars

\* Ticket 1 was looked up in a root that holds its two directories, a
\* directory of ticket 12 and one of another prefix.
C29_Witness ==
    /\ last.op = "find_existing_ticket_dir" /\ last.ok
    /\ last.number = <<"1">> /\ last.rid = r_one
    /\ \A name \in EntryNames : IsDir(fs, Join(TicketRoot, name))
    /\ Name(last.path) = IF enum_desc THEN d_jira_1 ELSE d_JIRA_1_old

====
